---- MODULE Spec2Model ----
(***************************************************************************)
(* A model of the yilai translator: the single-instance coordinator of     *)
(* main.py (lock file, signal markers, poll), the request signer and the   *)
(* translation / OCR clients of translator.py.                             *)
(*                                                                         *)
(* Three specifications share the module's variables:                      *)
(*   Spec        processes starting, locking, signalling, polling, exiting *)
(*   SpecSign    _generate_sign applied to bounded inputs                  *)
(*   SpecClient  translate / recognize against every modelled outcome of   *)
(*               the HTTP POST                                             *)
(* Strings are sequences of one-character strings, so that slicing,        *)
(* joining, stripping and encoding are computed and not assumed.           *)
(***************************************************************************)
EXTENDS Integers, Sequences, FiniteSets, TLC

VARIABLES
    \* ---- coordinator (main.py) ----
    pc,          \* per process: where it is in __main__ / main()
    fd,          \* per process: inode its open lock_file handle refers to
    lockPath,    \* inode that the name LOCK_FILE refers to, or NoInode
    flockOwner,  \* per inode: the process holding the exclusive flock
    nextInode,   \* inodes created so far
    showSignal,  \* content of SHOW_SIGNAL_FILE, or Absent
    selSignal,   \* content of SELECTION_TRANSLATE_SIGNAL_FILE, or Absent
    savedState,  \* state.json: the persisted selection_translate_enabled
    app,         \* per process: the TranslatorApp object, once constructed
    exitCode,    \* per process: exit status, NotExited while it runs
    \* ---- signer (translator.py) ----
    sg,          \* the signer's inputs and its output
    \* ---- clients (translator.py) ----
    cl,          \* the client call in progress, its outcome and its result
    \* ---- signal markers and the poll, step by step (main.py) ----
    po,          \* the marker files, the senders and the polling instances
    \* ---- window, worker threads and tray of one instance (main.py) ----
    ui           \* the widgets, the threads, and the event loop's queue

vars == <<pc, fd, lockPath, flockOwner, nextInode, showSignal, selSignal, savedState, app, exitCode, sg,
          cl, po, ui>>

(***************************************************************************)
(* Bounds                                                                  *)
(***************************************************************************)
NumProcs == 3
MaxInodes == 2

Procs == 1..NumProcs
Inodes == 1..MaxInodes
NoInode == 0
NoProc == 0
NotExited == -1
Absent == <<"<absent>">>

(***************************************************************************)
(* Strings                                                                 *)
(***************************************************************************)
SHOW == <<"s", "h", "o", "w">>
TRANSLATE == <<"t", "r", "a", "n", "s", "l", "a", "t", "e">>

\* Python's str.isspace for the characters the model uses.
IsSpace(c) == c \in {" ", "\t", "\n", "\r"}

RECURSIVE lstrip(_)
lstrip(s) == IF s # <<>> /\ IsSpace(Head(s)) THEN lstrip(Tail(s)) ELSE s

RECURSIVE rstrip(_)
rstrip(s) ==
    IF s # <<>> /\ IsSpace(s[Len(s)]) THEN rstrip(SubSeq(s, 1, Len(s) - 1)) ELSE s

\* str.strip(): leading and trailing whitespace removed.
strip(s) == rstrip(lstrip(s))

\* str(n) for n >= 0: the decimal digits.
Digit(d) == <<"0", "1", "2", "3", "4", "5", "6", "7", "8", "9">>[d + 1]

RECURSIVE str_int(_)
str_int(n) == IF n < 10 THEN <<Digit(n)>> ELSE str_int(n \div 10) \o <<Digit(n % 10)>>

\* Python's s[a:b]: a negative index counts from the end, and an index past
\* either end is clamped.
PyIndex(n, i) == IF i < 0 THEN (IF n + i < 0 THEN 0 ELSE n + i) ELSE (IF i > n THEN n ELSE i)
PySlice(s, a, b) == SubSeq(s, PyIndex(Len(s), a) + 1, PyIndex(Len(s), b))

\* str.encode('utf-8'), character by character: the ASCII characters are one
\* byte each, e-acute is two.
Utf8(c) == IF c = "é" THEN <<"\\xc3", "\\xa9">> ELSE <<c>>

RECURSIVE encode_utf8(_)
encode_utf8(s) == IF s = <<>> THEN <<>> ELSE Utf8(Head(s)) \o encode_utf8(Tail(s))

\* hashlib.sha256(bytes).hexdigest(): SHA-256 is taken to be collision free,
\* so the digest stands for exactly the bytes that were hashed.
sha256_hexdigest(bytes) == [sha256 |-> bytes]

(***************************************************************************)
(* Signer: translator.py                                                   *)
(***************************************************************************)
MaxPayloadLen == 22

\* The mutation of _generate_sign that leaves the salt out of the hashed string.
YoudaoTranslator_generate_sign_nosalt(app_key, app_secret, query, salt, curtime) ==
    LET input_str == IF Len(query) <= 20 THEN query
                     ELSE PySlice(query, 0, 10) \o str_int(Len(query))
                              \o PySlice(query, -10, Len(query))
        sign_str == app_key \o input_str \o curtime \o app_secret
    IN  sha256_hexdigest(encode_utf8(sign_str))

\* The mutation of _generate_sign that truncates from length 20 on.
YoudaoTranslator_generate_sign_lt20(app_key, app_secret, query, salt, curtime) ==
    LET input_str == IF Len(query) < 20 THEN query
                     ELSE PySlice(query, 0, 10) \o str_int(Len(query))
                              \o PySlice(query, -10, Len(query))
        sign_str == app_key \o input_str \o salt \o curtime \o app_secret
    IN  sha256_hexdigest(encode_utf8(sign_str))

\* YoudaoTranslator._generate_sign
YoudaoTranslator_generate_sign(app_key, app_secret, query, salt, curtime) ==
    LET input_str == IF Len(query) <= 20 THEN query
                     ELSE PySlice(query, 0, 10) \o str_int(Len(query))
                              \o PySlice(query, -10, Len(query))
        sign_str == app_key \o input_str \o salt \o curtime \o app_secret
    IN  sha256_hexdigest(encode_utf8(sign_str))

\* The mutation of the OCR copy of _generate_sign that never truncates.
YoudaoOCR_generate_sign_verbatim(app_key, app_secret, img_base64, salt, curtime) ==
    sha256_hexdigest(encode_utf8(app_key \o img_base64 \o salt \o curtime \o app_secret))

\* YoudaoOCR._generate_sign
YoudaoOCR_generate_sign(app_key, app_secret, img_base64, salt, curtime) ==
    LET input_str == IF Len(img_base64) <= 20 THEN img_base64
                     ELSE PySlice(img_base64, 0, 10) \o str_int(Len(img_base64))
                              \o PySlice(img_base64, -10, Len(img_base64))
        sign_str == app_key \o input_str \o salt \o curtime \o app_secret
    IN  sha256_hexdigest(encode_utf8(sign_str))

\* The payloads signed: every length up to the bound, two fillings of each
\* and, for each, a twin that differs from it at position 11 only.
PayloadChars == <<"a", "b", "é", "1", "c", "2", "d">>
Payload(n, v, twin) ==
    [i \in 1..n |-> IF twin /\ i = 11 THEN "z"
                    ELSE PayloadChars[((i + v) % Len(PayloadChars)) + 1]]
Payloads == {Payload(n, v, twin) : n \in 0..MaxPayloadLen, v \in 0..1, twin \in BOOLEAN}

Salts == {<<"u", "1">>, <<"u", "2">>}
Curtimes == {<<"1", "7">>, <<"1", "8">>}
AppKeys == {<<"k">>, <<"k", "1">>}
AppSecrets == {<<"s">>, <<"1", "s">>}

SignInit ==
    sg \in [pc : {"ready"}, signer : {"none"}, app_key : AppKeys, app_secret : AppSecrets,
            query : Payloads, salt : Salts, curtime : Curtimes, sign : {<<>>}]

\* A call of YoudaoTranslator._generate_sign on the inputs.
translator_sign ==
    /\ sg.pc = "ready"
    /\ sg' = [sg EXCEPT !.pc = "signed", !.signer = "YoudaoTranslator",
                        !.sign = YoudaoTranslator_generate_sign(
                                     sg.app_key, sg.app_secret, sg.query, sg.salt, sg.curtime)]
    /\ UNCHANGED <<pc, fd, lockPath, flockOwner, nextInode, showSignal, selSignal, savedState,
                   app, exitCode, cl, po, ui>>

\* A call of YoudaoOCR._generate_sign on the inputs.
ocr_sign ==
    /\ sg.pc = "ready"
    /\ sg' = [sg EXCEPT !.pc = "signed", !.signer = "YoudaoOCR",
                        !.sign = YoudaoOCR_generate_sign(
                                     sg.app_key, sg.app_secret, sg.query, sg.salt, sg.curtime)]
    /\ UNCHANGED <<pc, fd, lockPath, flockOwner, nextInode, showSignal, selSignal, savedState,
                   app, exitCode, cl, po, ui>>

(***************************************************************************)
(* Python values, as response.json() builds them                           *)
(***************************************************************************)
JNull == [k |-> "null"]
JStr(s) == [k |-> "str", s |-> s]
JNum(n) == [k |-> "num", n |-> n]
JList(items) == [k |-> "list", items |-> items]
JObj(f) == [k |-> "obj", f |-> f]

\* dict.get(key, default)
dict_get(d, key, default) == IF key \in DOMAIN d.f THEN d.f[key] ELSE default

\* bool(v), as `if v` takes it
truthy(v) ==
    CASE v.k = "null" -> FALSE
      [] v.k = "str" -> v.s # <<>>
      [] v.k = "num" -> v.n # 0
      [] v.k = "list" -> v.items # <<>>
      [] v.k = "obj" -> DOMAIN v.f # {}

\* Whether v can be a dict key: lists and dicts are unhashable.
hashable(v) == v.k \notin {"list", "obj"}

\* str(v) inside an f-string, for the values that reach one.
py_str(v) ==
    CASE v.k = "str" -> v.s
      [] v.k = "num" -> str_int(v.n)
      [] v.k = "null" -> <<"N", "o", "n", "e">>

\* iter(v): the items of a list, the characters of a string, the keys of a
\* dict (only the empty dict is iterated in the model); None and numbers are
\* not iterable.
py_iter(v) ==
    CASE v.k = "list" -> [ok |-> TRUE, items |-> v.items]
      [] v.k = "str" -> [ok |-> TRUE, items |-> [i \in 1..Len(v.s) |-> JStr(<<v.s[i]>>)]]
      [] v.k = "obj" /\ DOMAIN v.f = {} -> [ok |-> TRUE, items |-> <<>>]
      [] v.k \in {"null", "num"} -> [ok |-> FALSE, items |-> <<>>]

\* The mutation of join_strs that puts nothing between the pieces.
RECURSIVE join_strs_nosep(_, _)
join_strs_nosep(sep, items) ==
    IF items = <<>> THEN <<>>
    ELSE Head(items).s \o join_strs_nosep(sep, Tail(items))

\* sep.join(items) for a sequence of strings.
RECURSIVE join_strs(_, _)
join_strs(sep, items) ==
    IF items = <<>> THEN <<>>
    ELSE IF Len(items) = 1 THEN Head(items).s
    ELSE Head(items).s \o sep \o join_strs(sep, Tail(items))

\* sep.join(v): TypeError when v is not iterable or an item is not a string.
str_join(sep, v) ==
    LET it == py_iter(v)
    IN  IF it.ok /\ \A i \in 1..Len(it.items) : it.items[i].k = "str"
        THEN [ok |-> TRUE, s |-> join_strs(sep, it.items)]
        ELSE [ok |-> FALSE, s |-> <<>>]

NL == <<"\n">>

(***************************************************************************)
(* Exceptions: the classes requests and json raise, with their bases       *)
(***************************************************************************)
Exc(cls, msg) == [cls |-> cls, msg |-> msg]

\* The classes an exception of class cls is an instance of. response.json()
\* raises requests.exceptions.JSONDecodeError from requests 2.27 on, and
\* json's or simplejson's own error before; which one depends on the
\* installed requests, that nothing in the repository pins.
Bases(cls) ==
    CASE cls = "ConnectTimeout" ->
             {"ConnectTimeout", "ConnectionError", "Timeout", "RequestException"}
      [] cls = "ReadTimeout" -> {"ReadTimeout", "Timeout", "RequestException"}
      [] cls = "ConnectionError" -> {"ConnectionError", "RequestException"}
      [] cls = "TooManyRedirects" -> {"TooManyRedirects", "RequestException"}
      [] cls = "requests.JSONDecodeError" ->
             {"requests.JSONDecodeError", "InvalidJSONError", "RequestException",
              "json.JSONDecodeError", "ValueError"}
      [] cls = "json.JSONDecodeError" -> {"json.JSONDecodeError", "ValueError"}
      [] cls = "simplejson.JSONDecodeError" -> {"simplejson.JSONDecodeError", "ValueError"}
      [] cls = "AttributeError" -> {"AttributeError"}
      [] cls = "TypeError" -> {"TypeError"}

\* The first except clause that catches e, 0 when none does.
first_clause(clauses, e) ==
    IF \E i \in 1..Len(clauses) : clauses[i] \in Bases(e.cls)
    THEN CHOOSE i \in 1..Len(clauses) :
             /\ clauses[i] \in Bases(e.cls)
             /\ \A j \in 1..(i - 1) : clauses[j] \notin Bases(e.cls)
    ELSE 0

\* What a call hands back: a returned dict, or an exception that propagates.
Returned(v) == [returned |-> TRUE, value |-> v]
Raised(e) == [returned |-> FALSE, exc |-> e]

(***************************************************************************)
(* Messages (the source's Chinese texts, named in ASCII)                   *)
(***************************************************************************)
\* "翻译文本不能为空"
MSG_EMPTY_TEXT == <<"<translation text must not be empty>">>
\* "请求超时，请检查网络连接"
MSG_TIMEOUT == <<"<request timed out, check the network connection>">>
\* "网络请求失败: "
MSG_REQUEST_FAILED == <<"<network request failed: >">>
\* "服务器返回数据格式错误"
MSG_MALFORMED == <<"<server returned malformed data>">>
\* "错误码 "
MSG_ERROR_CODE == <<"<error code >">>
\* "未知错误"
MSG_UNKNOWN == <<"<unknown error>">>

\* YoudaoTranslator._get_error_message: error_messages
translator_error_messages ==
    {<< <<"1", "0", "1">>, <<"<missing required parameter>">> >>,
     << <<"1", "0", "2">>, <<"<unsupported language type>">> >>,
     << <<"1", "0", "3">>, <<"<translation text too long>">> >>,
     << <<"1", "0", "8">>, <<"<invalid application id>">> >>,
     << <<"1", "1", "0">>, <<"<no valid application of the service>">> >>,
     << <<"1", "1", "1">>, <<"<invalid developer account>">> >>,
     << <<"2", "0", "2">>, <<"<signature check failed, check appKey and secret>">> >>,
     << <<"2", "0", "6">>, <<"<invalid timestamp>">> >>,
     << <<"2", "0", "7">>, <<"<replayed request>">> >>,
     << <<"4", "0", "1">>, <<"<account in arrears>">> >>,
     << <<"4", "1", "1">>, <<"<access frequency limited>">> >>}

\* YoudaoOCR._get_error_message: error_messages
ocr_error_messages ==
    {<< <<"1", "0", "1">>, <<"<missing required parameter>">> >>,
     << <<"1", "0", "2">>, <<"<unsupported language type>">> >>,
     << <<"1", "0", "8">>, <<"<invalid application id>">> >>,
     << <<"1", "1", "0">>, <<"<no valid application of the service>">> >>,
     << <<"1", "1", "1">>, <<"<invalid developer account>">> >>,
     << <<"2", "0", "2">>, <<"<signature check failed, check appKey and secret>">> >>,
     << <<"2", "0", "6">>, <<"<invalid timestamp>">> >>,
     << <<"2", "0", "7">>, <<"<replayed request>">> >>,
     << <<"4", "0", "1">>, <<"<account in arrears>">> >>,
     << <<"4", "1", "1">>, <<"<access frequency limited>">> >>,
     << <<"1", "0", "0", "1">>, <<"<invalid OCR type>">> >>,
     << <<"1", "0", "0", "2">>, <<"<unsupported OCR image type>">> >>,
     << <<"1", "0", "0", "3">>, <<"<unsupported OCR language type>">> >>,
     << <<"1", "0", "0", "4">>, <<"<image too large>">> >>,
     << <<"1", "0", "0", "6">>, <<"<image must not be empty>">> >>,
     << <<"1", "2", "0", "1">>, <<"<image base64 decoding failed>">> >>,
     << <<"1", "3", "0", "1">>, <<"<OCR recognition failed>">> >>}

\* error_messages.get(error_code, default) for a hashable error_code: only a
\* string equals a key of the table.
table_get(table, error_code, default) ==
    IF error_code.k = "str" /\ \E e \in table : e[1] = error_code.s
    THEN (CHOOSE e \in table : e[1] = error_code.s)[2]
    ELSE default

\* The mutation of _get_error_message that has no default phrase.
translator_get_error_message_nodefault(error_code) ==
    table_get(translator_error_messages, error_code, <<>>)

\* YoudaoTranslator._get_error_message
translator_get_error_message(error_code) ==
    table_get(translator_error_messages, error_code, MSG_UNKNOWN)

\* YoudaoOCR._get_error_message
ocr_get_error_message(error_code) ==
    table_get(ocr_error_messages, error_code, MSG_UNKNOWN)

(***************************************************************************)
(* Translation client: YoudaoTranslator.translate                          *)
(***************************************************************************)
\* The mutation of the input check that tests the text without stripping it.
translate_is_empty_nostrip(text) == text = <<>>

\* translate: `not text.strip()`
translate_is_empty(text) == strip(text) = <<>>

\* translate: the dict returned on every failure.
translate_failure(text, error) ==
    [success |-> FALSE, translation |-> <<>>, error |-> error, query |-> JStr(text)]

\* translate: salt, curtime, sign and the request parameters.
translate_params(app_key, app_secret, text, from_lang, to_lang, salt, curtime) ==
    [q |-> text, from |-> from_lang, to |-> to_lang, appKey |-> app_key, salt |-> salt,
     sign |-> YoudaoTranslator_generate_sign(app_key, app_secret, text, salt, curtime),
     signType |-> "v3", curtime |-> curtime]

\* translate: the body of the try block, once requests.post and
\* response.json() have raised or produced a value.
translate_try(text, outcome) ==
    IF outcome.at # "ok" THEN Raised(outcome.exc)
    ELSE LET result == outcome.value IN
    IF result.k # "obj" THEN Raised(Exc("AttributeError", <<"<no attribute 'get'>">>))
    ELSE LET error_code == dict_get(result, "errorCode", JStr(<<>>)) IN
    IF error_code = JStr(<<"0">>)
    THEN LET translation_list == dict_get(result, "translation", JList(<<>>))
             joined == str_join(NL, translation_list)
         IN  IF truthy(translation_list) /\ ~joined.ok
             THEN Raised(Exc("TypeError", <<"<cannot join>">>))
             ELSE Returned([success |-> TRUE,
                            translation |-> IF truthy(translation_list) THEN joined.s ELSE <<>>,
                            error |-> <<>>,
                            query |-> dict_get(result, "query", JStr(text)),
                            speakUrl |-> dict_get(result, "speakUrl", JStr(<<>>)),
                            tSpeakUrl |-> dict_get(result, "tSpeakUrl", JStr(<<>>))])
    ELSE IF ~hashable(error_code)
         THEN Raised(Exc("TypeError", <<"<unhashable type>">>))
         ELSE Returned(translate_failure(text,
                  MSG_ERROR_CODE \o py_str(error_code) \o <<":", " ">>
                      \o translator_get_error_message(error_code)))

\* The mutation of translate's except clauses that tests RequestException
\* before Timeout.
translate_except_clauses_swapped == <<"RequestException", "Timeout", "json.JSONDecodeError">>

\* translate: the except clauses, in their order.
translate_except_clauses == <<"Timeout", "RequestException", "json.JSONDecodeError">>

\* translate: what the except clauses make of an exception raised in the try.
translate_except(text, e) ==
    LET i == first_clause(translate_except_clauses, e) IN
    IF i = 0 THEN Raised(e)
    ELSE LET clause == translate_except_clauses[i] IN
         CASE clause = "Timeout" -> Returned(translate_failure(text, MSG_TIMEOUT))
           [] clause = "RequestException" ->
                  Returned(translate_failure(text, MSG_REQUEST_FAILED \o e.msg))
           [] clause = "json.JSONDecodeError" ->
                  Returned(translate_failure(text, MSG_MALFORMED))

\* translate, from the POST on.
translate_response(text, outcome) ==
    LET r == translate_try(text, outcome)
    IN  IF r.returned THEN r ELSE translate_except(text, r.exc)

(***************************************************************************)
(* OCR client: YoudaoOCR.recognize                                         *)
(***************************************************************************)
B64Chars ==
    <<"A", "B", "C", "D", "E", "F", "G", "H", "I", "J", "K", "L", "M", "N", "O", "P",
      "Q", "R", "S", "T", "U", "V", "W", "X", "Y", "Z", "a", "b", "c", "d", "e", "f",
      "g", "h", "i", "j", "k", "l", "m", "n", "o", "p", "q", "r", "s", "t", "u", "v",
      "w", "x", "y", "z", "0", "1", "2", "3", "4", "5", "6", "7", "8", "9", "+", "/">>
B64(n) == B64Chars[(n % 64) + 1]

\* base64.b64encode(image_data).decode('utf-8'): three bytes make four
\* characters, a last group of one or two bytes is padded with '='.
RECURSIVE b64encode(_)
b64encode(b) ==
    IF Len(b) = 0 THEN <<>>
    ELSE IF Len(b) = 1
    THEN LET n == b[1] * 65536
         IN  <<B64(n \div 262144), B64(n \div 4096), "=", "=">>
    ELSE IF Len(b) = 2
    THEN LET n == b[1] * 65536 + b[2] * 256
         IN  <<B64(n \div 262144), B64(n \div 4096), B64(n \div 64), "=">>
    ELSE LET n == b[1] * 65536 + b[2] * 256 + b[3]
         IN  <<B64(n \div 262144), B64(n \div 4096), B64(n \div 64), B64(n)>>
                 \o b64encode(SubSeq(b, 4, Len(b)))

\* recognize: the dict returned on every failure.
recognize_failure(error) ==
    [success |-> FALSE, text |-> <<>>, error |-> error, regions |-> JList(<<>>)]

\* recognize: the image in base64, salt, curtime, sign and the parameters.
recognize_params(app_key, app_secret, image_data, lang, salt, curtime) ==
    LET img_base64 == b64encode(image_data)
    IN  [img |-> img_base64, langType |-> lang, detectType |-> "10012", imageType |-> "1",
         appKey |-> app_key, salt |-> salt,
         sign |-> YoudaoOCR_generate_sign(app_key, app_secret, img_base64, salt, curtime),
         signType |-> "v3", curtime |-> curtime, docType |-> "json"]

\* The mutation of the inner loop that appends every line's text, empty or not.
RECURSIVE recognize_lines_unfiltered(_, _)
recognize_lines_unfiltered(lines, text_lines) ==
    IF lines = <<>> THEN [ok |-> TRUE, text_lines |-> text_lines]
    ELSE IF Head(lines).k # "obj" THEN [ok |-> FALSE, cls |-> "AttributeError"]
    ELSE recognize_lines_unfiltered(Tail(lines),
             Append(text_lines, dict_get(Head(lines), "text", JStr(<<>>))))

\* recognize: `for line in ...: line_text = line.get("text", ""); if
\* line_text: text_lines.append(line_text)`
RECURSIVE recognize_lines(_, _)
recognize_lines(lines, text_lines) ==
    IF lines = <<>> THEN [ok |-> TRUE, text_lines |-> text_lines]
    ELSE IF Head(lines).k # "obj" THEN [ok |-> FALSE, cls |-> "AttributeError"]
    ELSE LET line_text == dict_get(Head(lines), "text", JStr(<<>>))
         IN  recognize_lines(Tail(lines),
                 IF truthy(line_text) THEN Append(text_lines, line_text) ELSE text_lines)

\* recognize: `for region in regions: for line in region.get("lines", [])`
RECURSIVE recognize_regions(_, _)
recognize_regions(regions, text_lines) ==
    IF regions = <<>> THEN [ok |-> TRUE, text_lines |-> text_lines]
    ELSE IF Head(regions).k # "obj" THEN [ok |-> FALSE, cls |-> "AttributeError"]
    ELSE LET lines == py_iter(dict_get(Head(regions), "lines", JList(<<>>))) IN
         IF ~lines.ok THEN [ok |-> FALSE, cls |-> "TypeError"]
         ELSE LET r == recognize_lines(lines.items, text_lines)
              IN  IF ~r.ok THEN r ELSE recognize_regions(Tail(regions), r.text_lines)

\* recognize: the body of the try block.
recognize_try(outcome) ==
    IF outcome.at # "ok" THEN Raised(outcome.exc)
    ELSE LET result == outcome.value IN
    IF result.k # "obj" THEN Raised(Exc("AttributeError", <<"<no attribute 'get'>">>))
    ELSE LET error_code == dict_get(result, "errorCode", JStr(<<>>)) IN
    IF error_code = JStr(<<"0">>)
    THEN LET Result == dict_get(result, "Result", JObj(<<>>)) IN
         IF Result.k # "obj" THEN Raised(Exc("AttributeError", <<"<no attribute 'get'>">>))
         ELSE LET regions == dict_get(Result, "regions", JList(<<>>))
                  it == py_iter(regions)
              IN  IF ~it.ok THEN Raised(Exc("TypeError", <<"<not iterable>">>))
                  ELSE LET r == recognize_regions(it.items, <<>>) IN
                       IF ~r.ok THEN Raised(Exc(r.cls, <<"<no attribute 'get'>">>))
                       ELSE LET joined == str_join(NL, JList(r.text_lines)) IN
                            IF ~joined.ok THEN Raised(Exc("TypeError", <<"<cannot join>">>))
                            ELSE Returned([success |-> TRUE, text |-> joined.s,
                                           error |-> <<>>, regions |-> regions])
    ELSE IF ~hashable(error_code)
         THEN Raised(Exc("TypeError", <<"<unhashable type>">>))
         ELSE Returned(recognize_failure(
                  MSG_ERROR_CODE \o py_str(error_code) \o <<":", " ">>
                      \o ocr_get_error_message(error_code)))

\* recognize: the except clauses, in their order.
recognize_except_clauses == <<"Timeout", "RequestException", "json.JSONDecodeError">>

\* recognize: what the except clauses make of an exception raised in the try.
recognize_except(e) ==
    LET i == first_clause(recognize_except_clauses, e) IN
    IF i = 0 THEN Raised(e)
    ELSE LET clause == recognize_except_clauses[i] IN
         CASE clause = "Timeout" -> Returned(recognize_failure(MSG_TIMEOUT))
           [] clause = "RequestException" ->
                  Returned(recognize_failure(MSG_REQUEST_FAILED \o e.msg))
           [] clause = "json.JSONDecodeError" -> Returned(recognize_failure(MSG_MALFORMED))

\* recognize, from the POST on.
recognize_response(outcome) ==
    LET r == recognize_try(outcome)
    IN  IF r.returned THEN r ELSE recognize_except(r.exc)

(***************************************************************************)
(* The client calls and what the network can answer                        *)
(***************************************************************************)
MaxTextLen == 2
MaxImageLen == 2

RECURSIVE SeqsUpTo(_, _)
SeqsUpTo(S, n) ==
    IF n = 0 THEN {<<>>}
    ELSE LET shorter == SeqsUpTo(S, n - 1)
         IN  shorter \cup {Append(t, c) : t \in {u \in shorter : Len(u) = n - 1}, c \in S}

\* Texts of 20 and of 21 characters, on either side of the signer's threshold.
LongTexts == {Payload(20, 0, FALSE), Payload(21, 0, FALSE)}

\* Images of 15 and of 16 bytes: 20 and 24 characters in base64.
LongImages == {[i \in 1..15 |-> (i * 37) % 256], [i \in 1..16 |-> (i * 41) % 256]}

\* The texts translated and the images recognized.
Texts == SeqsUpTo({"a", " ", "\n"}, MaxTextLen) \cup LongTexts
Images == SeqsUpTo({0, 77, 255}, MaxImageLen) \cup LongImages
LangPairs == {<<"auto", "en">>, <<"en", "zh-CHS">>}
OcrLangs == {"auto", "en"}

\* requests.post raising: timeouts and other transport failures, with str(e).
PostExceptions ==
    {Exc("ConnectTimeout", <<"<connect timed out>">>),
     Exc("ReadTimeout", <<"<read timed out>">>),
     Exc("ConnectionError", <<"<connection refused>">>),
     Exc("ConnectionError", <<>>),
     Exc("TooManyRedirects", <<"<exceeded 30 redirects>">>)}

\* response.json() raising on a body that is not JSON.
JsonExceptions ==
    {Exc(cls, <<"<Expecting value: line 1 column 1 (char 0)>">>) :
         cls \in {"requests.JSONDecodeError", "json.JSONDecodeError",
                  "simplejson.JSONDecodeError"}}

\* A dict with the field, for every value given, and the dict without it.
OptionalField(name, values) == {<<>>} \cup {name :> v : v \in values}

ErrorCodes ==
    {JStr(<<"0">>), JStr(<<"4", "1", "1">>), JStr(<<"1", "0", "3">>),
     JStr(<<"1", "0", "0", "4">>), JStr(<<"9", "9", "9", "9">>),
     JNum(0), JNum(411), JNull, JList(<<>>)}

Translations ==
    {JNull, JList(<<>>), JList(<<JStr(<<"A">>)>>), JList(<<JStr(<<"A">>), JStr(<<"B">>)>>),
     JList(<<JStr(<<"B">>), JStr(<<>>), JStr(<<"A", "\n", "C">>)>>),
     JList(<<JStr(<<"A">>), JNum(1)>>), JStr(<<"A", "B">>), JNum(5)}

\* Values that are valid JSON and are not an object.
NotObjects == {JNull, JList(<<>>), JStr(<<"o", "k">>), JNum(1)}

TranslateBodies ==
    {JObj(e @@ t @@ q) : e \in OptionalField("errorCode", ErrorCodes),
                         t \in OptionalField("translation", Translations),
                         q \in OptionalField("query", {JStr(<<"q">>)})}
        \cup NotObjects

Line(t) == JObj("text" :> t)
Region(lines) == JObj("lines" :> JList(lines))
RegionLists ==
    {<<>>,
     <<Region(<<Line(JStr(<<"A">>)), Line(JStr(<<"B">>))>>)>>,
     <<Region(<<Line(JStr(<<"A">>)), Line(JStr(<<"B">>))>>), Region(<<Line(JStr(<<"C">>))>>)>>,
     <<Region(<<Line(JStr(<<"C">>))>>), Region(<<Line(JStr(<<"B">>)), Line(JStr(<<"A">>))>>)>>,
     <<Region(<<Line(JStr(<<>>)), Line(JStr(<<"D">>))>>),
       Region(<<JObj(<<>>), Line(JStr(<<"E">>))>>)>>,
     <<Region(<<Line(JNull), Line(JStr(<<"F">>))>>)>>,
     <<JObj(<<>>), Region(<<>>), Region(<<Line(JStr(<<"C", "\n", "D">>))>>)>>,
     <<Region(<<Line(JStr(<<"A">>)), Line(JNum(5))>>)>>,
     <<Region(<<JStr(<<"x">>)>>)>>,
     <<JObj("lines" :> JNull)>>,
     <<JNull>>}

Results ==
    {JNull, JObj(<<>>), JObj("regions" :> JNull), JObj("regions" :> JStr(<<>>))}
        \cup {JObj("regions" :> JList(r)) : r \in RegionLists}

RecognizeBodies ==
    {JObj(e @@ r) : e \in OptionalField("errorCode", ErrorCodes),
                    r \in OptionalField("Result", Results)}
        \cup NotObjects

\* Every way the POST and the decoding of its answer can end.
Outcomes(bodies) ==
    {[at |-> "post", exc |-> e] : e \in PostExceptions}
        \cup {[at |-> "json", exc |-> e] : e \in JsonExceptions}
        \cup {[at |-> "ok", value |-> v] : v \in bodies}

NoParams == [none |-> TRUE]
NoOutcome == [at |-> "none"]
NoResult == [pending |-> TRUE]

ClientInit ==
    cl \in [pc : {"idle"}, op : {"none"}, app_key : {<<"k">>}, app_secret : {<<"s">>},
            text : {<<>>}, lang : {<<>>}, image : {<<>>}, params : {NoParams},
            outcome : {NoOutcome}, result : {NoResult}, posts : {0}]

\* translate, up to the POST: an empty text is refused at once; otherwise the
\* request is signed and posted.
translate_begin(text, lang, salt, curtime) ==
    /\ cl.pc = "idle"
    /\ IF translate_is_empty(text)
       THEN cl' = [cl EXCEPT !.pc = "done", !.op = "translate", !.text = text, !.lang = lang,
                             !.result = Returned(translate_failure(text, MSG_EMPTY_TEXT))]
       ELSE cl' = [cl EXCEPT !.pc = "posting", !.op = "translate", !.text = text,
                             !.lang = lang,
                             !.params = translate_params(cl.app_key, cl.app_secret, text,
                                                         lang[1], lang[2], salt, curtime),
                             !.posts = cl.posts + 1]
    /\ UNCHANGED <<pc, fd, lockPath, flockOwner, nextInode, showSignal, selSignal, savedState,
                   app, exitCode, sg, po, ui>>

\* translate, from the POST on: the answer is decoded, mapped and returned.
translate_end(outcome) ==
    /\ cl.pc = "posting"
    /\ cl.op = "translate"
    /\ cl' = [cl EXCEPT !.pc = "done", !.outcome = outcome,
                        !.result = translate_response(cl.text, outcome)]
    /\ UNCHANGED <<pc, fd, lockPath, flockOwner, nextInode, showSignal, selSignal, savedState,
                   app, exitCode, sg, po, ui>>

\* recognize, up to the POST: the image is encoded, signed and posted.
recognize_begin(image_data, lang, salt, curtime) ==
    /\ cl.pc = "idle"
    /\ cl' = [cl EXCEPT !.pc = "posting", !.op = "recognize", !.image = image_data,
                        !.lang = <<lang>>,
                        !.params = recognize_params(cl.app_key, cl.app_secret, image_data,
                                                    lang, salt, curtime),
                        !.posts = cl.posts + 1]
    /\ UNCHANGED <<pc, fd, lockPath, flockOwner, nextInode, showSignal, selSignal, savedState,
                   app, exitCode, sg, po, ui>>

\* recognize, from the POST on.
recognize_end(outcome) ==
    /\ cl.pc = "posting"
    /\ cl.op = "recognize"
    /\ cl' = [cl EXCEPT !.pc = "done", !.outcome = outcome,
                        !.result = recognize_response(outcome)]
    /\ UNCHANGED <<pc, fd, lockPath, flockOwner, nextInode, showSignal, selSignal, savedState,
                   app, exitCode, sg, po, ui>>

(***************************************************************************)
(* Coordinator: main.py                                                    *)
(***************************************************************************)
NoApp == [window |-> FALSE, is_visible |-> FALSE, polled |-> FALSE,
          api_called |-> FALSE, selection_translate_enabled |-> FALSE]

\* p holds a successful exclusive flock on the inode of its open handle.
HoldsLock(p) == fd[p] # NoInode /\ flockOwner[fd[p]] = p

\* p acquired the lock and is constructing or running the application.
IsPrimary(p) == pc[p] \in {"app_init", "listener", "running"}

\* No process has started; nothing is in /tmp.
CoordOff ==
    /\ pc = [p \in Procs |-> "idle"]
    /\ fd = [p \in Procs |-> NoInode]
    /\ lockPath = NoInode
    /\ flockOwner = [i \in Inodes |-> NoProc]
    /\ nextInode = 0
    /\ showSignal = Absent
    /\ selSignal = Absent
    /\ app = [p \in Procs |-> NoApp]
    /\ exitCode = [p \in Procs |-> NotExited]

CoordInit ==
    /\ CoordOff
    /\ savedState \in BOOLEAN

\* __main__: the command line decides what the process does. Processes are
\* interchangeable, so they are started in the order of their numbers.
start(p, argv) ==
    /\ pc[p] = "idle"
    /\ \A q \in Procs : q < p => pc[q] # "idle"
    /\ pc' = [pc EXCEPT ![p] = CASE argv = "--show" -> "cli_show"
                                 [] argv = "--selection-translate" -> "cli_selection"
                                 [] OTHER -> "open_lock"]
    /\ UNCHANGED <<fd, lockPath, flockOwner, nextInode, showSignal, selSignal, savedState, app, exitCode, sg, cl, po, ui>>

\* check_single_instance, first call: open(LOCK_FILE, 'w') opens the file the
\* name refers to, creating it when the name does not exist.
check_single_instance_open(p) ==
    /\ pc[p] = "open_lock"
    /\ IF lockPath = NoInode
       THEN /\ nextInode < MaxInodes
            /\ nextInode' = nextInode + 1
            /\ lockPath' = nextInode + 1
            /\ fd' = [fd EXCEPT ![p] = nextInode + 1]
       ELSE /\ fd' = [fd EXCEPT ![p] = lockPath]
            /\ UNCHANGED <<lockPath, nextInode>>
    /\ pc' = [pc EXCEPT ![p] = "flock"]
    /\ UNCHANGED <<flockOwner, showSignal, selSignal, savedState, app, exitCode, sg, cl, po, ui>>

\* check_single_instance, second call: flock(LOCK_EX | LOCK_NB) on the open
\* handle. It never waits: it succeeds, or raises and None is returned (the
\* handle is then dropped, which closes it).
check_single_instance_flock(p) ==
    /\ pc[p] = "flock"
    /\ IF flockOwner[fd[p]] = NoProc
       THEN /\ flockOwner' = [flockOwner EXCEPT ![fd[p]] = p]
            /\ pc' = [pc EXCEPT ![p] = "app_init"]
            /\ UNCHANGED fd
       ELSE /\ fd' = [fd EXCEPT ![p] = NoInode]
            /\ pc' = [pc EXCEPT ![p] = "secondary_send"]
            /\ UNCHANGED flockOwner
    /\ UNCHANGED <<lockPath, nextInode, showSignal, selSignal, savedState, app, exitCode, sg, cl, po, ui>>

\* send_show_signal: the marker is (re)written with 'show'; called by main()
\* for a secondary invocation and by the --show flag.
send_show_signal(p) ==
    /\ pc[p] \in {"secondary_send", "cli_show"}
    /\ showSignal' = SHOW
    /\ pc' = [pc EXCEPT ![p] = IF pc[p] = "secondary_send" THEN "secondary_exit" ELSE "cli_exit"]
    /\ UNCHANGED <<fd, lockPath, flockOwner, nextInode, selSignal, savedState, app, exitCode, sg, cl, po, ui>>

\* send_selection_translate_signal: called by the --selection-translate flag.
send_selection_translate_signal(p) ==
    /\ pc[p] = "cli_selection"
    /\ selSignal' = TRANSLATE
    /\ pc' = [pc EXCEPT ![p] = "cli_exit"]
    /\ UNCHANGED <<fd, lockPath, flockOwner, nextInode, showSignal, savedState, app, exitCode, sg, cl, po, ui>>

\* sys.exit(0) after the signal was sent.
sys_exit(p) ==
    /\ pc[p] \in {"secondary_exit", "cli_exit"}
    /\ pc' = [pc EXCEPT ![p] = IF pc[p] = "secondary_exit" THEN "secondary_done" ELSE "cli_done"]
    /\ exitCode' = [exitCode EXCEPT ![p] = 0]
    /\ UNCHANGED <<fd, lockPath, flockOwner, nextInode, showSignal, selSignal, savedState, app, sg, cl, po, ui>>

\* TranslatorApp.__init__ up to _start_signal_listener: the window exists and
\* is shown; selection translation is as the saved state has it.
TranslatorApp_init(p) ==
    /\ pc[p] = "app_init"
    /\ app' = [app EXCEPT ![p] = [window |-> TRUE, is_visible |-> TRUE, polled |-> FALSE,
                                  api_called |-> FALSE,
                                  selection_translate_enabled |-> savedState]]
    /\ pc' = [pc EXCEPT ![p] = "listener"]
    /\ UNCHANGED <<fd, lockPath, flockOwner, nextInode, showSignal, selSignal, savedState, exitCode, sg, cl, po, ui>>

\* _do_show_window
do_show_window(a) == [a EXCEPT !.is_visible = TRUE]

\* _do_selection_translate: nothing when disabled; otherwise the window is
\* shown and, when get_selected_text returned text, _translate starts a call.
do_selection_translate(a, selected) ==
    IF ~a.selection_translate_enabled THEN a
    ELSE IF ~selected THEN do_show_window(a)
    ELSE [do_show_window(a) EXCEPT !.api_called = TRUE]

\* _check_signal: one poll. The show marker first (read, removed, acted on
\* when it reads 'show'), then the selection marker (removed, acted on). The
\* first poll runs inside the constructor, the later ones from the event loop.
_check_signal(p, selected) ==
    /\ pc[p] \in {"listener", "running"}
    /\ LET a0 == [app[p] EXCEPT !.polled = TRUE]
           a1 == IF showSignal # Absent /\ strip(showSignal) = SHOW
                 THEN do_show_window(a0) ELSE a0
           a2 == IF selSignal # Absent THEN do_selection_translate(a1, selected) ELSE a1
       IN  app' = [app EXCEPT ![p] = a2]
    /\ showSignal' = Absent
    /\ selSignal' = Absent
    /\ pc' = [pc EXCEPT ![p] = "running"]
    /\ UNCHANGED <<fd, lockPath, flockOwner, nextInode, savedState, exitCode, sg, cl, po, ui>>

\* _on_close with a tray icon: the window is withdrawn, the process goes on.
_on_close(p) ==
    /\ pc[p] = "running"
    /\ app[p].is_visible
    /\ app' = [app EXCEPT ![p].is_visible = FALSE]
    /\ UNCHANGED <<pc, fd, lockPath, flockOwner, nextInode, showSignal, selSignal, savedState, exitCode, sg, cl, po, ui>>

\* _translate from the window: a translation call is started.
_translate(p) ==
    /\ pc[p] = "running"
    /\ ~app[p].api_called
    /\ app' = [app EXCEPT ![p].api_called = TRUE]
    /\ UNCHANGED <<pc, fd, lockPath, flockOwner, nextInode, showSignal, selSignal, savedState, exitCode, sg, cl, po, ui>>

\* _quit_app (or _on_close without a tray): mainloop returns and main()
\* enters its finally block.
_quit_app(p) ==
    /\ pc[p] = "running"
    /\ pc' = [pc EXCEPT ![p] = "unlock"]
    /\ UNCHANGED <<fd, lockPath, flockOwner, nextInode, showSignal, selSignal, savedState, app, exitCode, sg, cl, po, ui>>

\* main(), finally: fcntl.flock(lock_file, LOCK_UN)
main_unlock(p) ==
    /\ pc[p] = "unlock"
    /\ flockOwner' = [flockOwner EXCEPT ![fd[p]] = NoProc]
    /\ pc' = [pc EXCEPT ![p] = "close"]
    /\ UNCHANGED <<fd, lockPath, nextInode, showSignal, selSignal, savedState, app, exitCode, sg, cl, po, ui>>

\* main(), finally: lock_file.close()
main_close(p) ==
    /\ pc[p] = "close"
    /\ fd' = [fd EXCEPT ![p] = NoInode]
    /\ pc' = [pc EXCEPT ![p] = "remove"]
    /\ UNCHANGED <<lockPath, flockOwner, nextInode, showSignal, selSignal, savedState, app, exitCode, sg, cl, po, ui>>

\* main(), finally: os.remove(LOCK_FILE) unlinks whatever the name refers to
\* now; main() then returns and the process exits with status 0, its window
\* and its objects gone with it.
main_remove(p) ==
    /\ pc[p] = "remove"
    /\ lockPath' = NoInode
    /\ pc' = [pc EXCEPT ![p] = "done"]
    /\ app' = [app EXCEPT ![p] = NoApp]
    /\ exitCode' = [exitCode EXCEPT ![p] = 0]
    /\ UNCHANGED <<fd, flockOwner, nextInode, showSignal, selSignal, savedState, sg, cl, po, ui>>

Argv == {"", "--show", "--selection-translate"}

SignIdle == [pc |-> "off"]
ClientIdle == [pc |-> "off"]
PollIdle == [pc |-> "off"]
UiIdle == [pc |-> "off"]

Init ==
    /\ CoordInit
    /\ sg = SignIdle
    /\ cl = ClientIdle
    /\ po = PollIdle
    /\ ui = UiIdle

Next ==
    \/ \E p \in Procs, argv \in Argv : start(p, argv)
    \/ \E p \in Procs : check_single_instance_open(p)
    \/ \E p \in Procs : check_single_instance_flock(p)
    \/ \E p \in Procs : send_show_signal(p)
    \/ \E p \in Procs : send_selection_translate_signal(p)
    \/ \E p \in Procs : sys_exit(p)
    \/ \E p \in Procs : TranslatorApp_init(p)
    \/ \E p \in Procs, selected \in BOOLEAN : _check_signal(p, selected)
    \/ \E p \in Procs : _on_close(p)
    \/ \E p \in Procs : _translate(p)
    \/ \E p \in Procs : _quit_app(p)
    \/ \E p \in Procs : main_unlock(p)
    \/ \E p \in Procs : main_close(p)
    \/ \E p \in Procs : main_remove(p)

Spec == Init /\ [][Next]_vars

\* main(), finally: fcntl.flock(lock_file, LOCK_UN) raises. The call is not
\* inside a try block, so the error leaves main(): the close and the removal
\* are skipped and the interpreter ends with status 1. The handle is closed
\* as the process ends, which drops its lock; the file stays.
main_unlock_raises(p) ==
    /\ pc[p] = "unlock"
    /\ flockOwner' = [flockOwner EXCEPT ![fd[p]] = NoProc]
    /\ fd' = [fd EXCEPT ![p] = NoInode]
    /\ pc' = [pc EXCEPT ![p] = "raised"]
    /\ app' = [app EXCEPT ![p] = NoApp]
    /\ exitCode' = [exitCode EXCEPT ![p] = 1]
    /\ UNCHANGED <<lockPath, nextInode, showSignal, selSignal, savedState, sg, cl, po, ui>>

\* main(), finally: lock_file.close() raises. It is not inside a try block
\* either: the removal is skipped and the interpreter ends with status 1.
main_close_raises(p) ==
    /\ pc[p] = "close"
    /\ fd' = [fd EXCEPT ![p] = NoInode]
    /\ pc' = [pc EXCEPT ![p] = "raised"]
    /\ app' = [app EXCEPT ![p] = NoApp]
    /\ exitCode' = [exitCode EXCEPT ![p] = 1]
    /\ UNCHANGED <<lockPath, flockOwner, nextInode, showSignal, selSignal, savedState, sg, cl, po, ui>>

\* main(), finally: os.remove(LOCK_FILE) raises; `except: pass` swallows the
\* error, the file stays and main() returns.
main_remove_raises(p) ==
    /\ pc[p] = "remove"
    /\ pc' = [pc EXCEPT ![p] = "done"]
    /\ app' = [app EXCEPT ![p] = NoApp]
    /\ exitCode' = [exitCode EXCEPT ![p] = 0]
    /\ UNCHANGED <<fd, lockPath, flockOwner, nextInode, showSignal, selSignal, savedState, sg, cl, po, ui>>

\* The coordinator with a shutdown whose system calls may fail.
NextFaults ==
    \/ \E p \in Procs, argv \in Argv : start(p, argv)
    \/ \E p \in Procs : check_single_instance_open(p)
    \/ \E p \in Procs : check_single_instance_flock(p)
    \/ \E p \in Procs : send_show_signal(p)
    \/ \E p \in Procs : send_selection_translate_signal(p)
    \/ \E p \in Procs : sys_exit(p)
    \/ \E p \in Procs : TranslatorApp_init(p)
    \/ \E p \in Procs, selected \in BOOLEAN : _check_signal(p, selected)
    \/ \E p \in Procs : _on_close(p)
    \/ \E p \in Procs : _translate(p)
    \/ \E p \in Procs : _quit_app(p)
    \/ \E p \in Procs : main_unlock(p)
    \/ \E p \in Procs : main_close(p)
    \/ \E p \in Procs : main_remove(p)
    \/ \E p \in Procs : main_unlock_raises(p)
    \/ \E p \in Procs : main_close_raises(p)
    \/ \E p \in Procs : main_remove_raises(p)

SpecFaults == Init /\ [][NextFaults]_vars

\* The signer alone: no process runs, no client call is made.
InitSign ==
    /\ CoordOff
    /\ savedState = FALSE
    /\ SignInit
    /\ cl = ClientIdle
    /\ po = PollIdle
    /\ ui = UiIdle

NextSign ==
    \/ translator_sign
    \/ ocr_sign

SpecSign == InitSign /\ [][NextSign]_vars

\* The clients alone: one call of translate or recognize, and its answer.
InitClient ==
    /\ CoordOff
    /\ savedState = FALSE
    /\ sg = SignIdle
    /\ ClientInit
    /\ po = PollIdle
    /\ ui = UiIdle

NextClient ==
    \/ \E text \in Texts, lang \in LangPairs, salt \in Salts, curtime \in Curtimes :
           translate_begin(text, lang, salt, curtime)
    \/ \E outcome \in Outcomes(TranslateBodies) : translate_end(outcome)
    \/ \E image_data \in Images, lang \in OcrLangs, salt \in Salts, curtime \in Curtimes :
           recognize_begin(image_data, lang, salt, curtime)
    \/ \E outcome \in Outcomes(RecognizeBodies) : recognize_end(outcome)

SpecClient == InitClient /\ [][NextClient]_vars

(***************************************************************************)
(* The signal markers step by step: senders and the poll of main.py        *)
(***************************************************************************)
NumSenders == 3
MaxPolls == 2

Senders == 1..NumSenders
Pollers == {1}
Kinds == {"show", "selection"}

\* A marker file that does not exist.
NoFile == [exists |-> FALSE, content |-> <<>>]

\* The marker file of a kind of signal.
marker(kind) == IF kind = "show" THEN po.show ELSE po.sel

\* No sender runs, no marker exists, every instance waits for its first poll
\* with selection translation as the saved state has it.
PollInit ==
    po \in [show : {NoFile}, sel : {NoFile},
            snd : {[s \in Senders |-> [pc |-> "idle", kind |-> "none", live |-> FALSE]]},
            pol : {[p \in Pollers |-> [pc |-> "wait", content |-> <<>>, cycle |-> 0,
                                       atStart |-> {}, deleted |-> {}, acts |-> <<>>,
                                       errors |-> {}, pending |-> 0]]},
            enabled : BOOLEAN,
            sends : {[k \in Kinds |-> 0]},
            handled : {[k \in Kinds |-> 0]}]

\* open(FILE, 'w') of a sender: the file is created when it does not exist and
\* emptied when it does; the sender holds a handle on it. Senders are
\* interchangeable, so they run in the order of their numbers.
signal_open(s, kind) ==
    /\ po.snd[s].pc = "idle"
    /\ \A r \in Senders : r < s => po.snd[r].pc # "idle"
    /\ po' = [po EXCEPT !.snd[s] = [pc |-> "opened", kind |-> kind, live |-> TRUE],
                        !.show = IF kind = "show" THEN [exists |-> TRUE, content |-> <<>>] ELSE @,
                        !.sel = IF kind = "selection" THEN [exists |-> TRUE, content |-> <<>>] ELSE @,
                        !.sends[kind] = @ + 1]
    /\ UNCHANGED <<pc, fd, lockPath, flockOwner, nextInode, showSignal, selSignal, savedState,
                   app, exitCode, sg, cl, ui>>

\* f.write(text) and the close that ends the with block: the text reaches the
\* file the handle refers to, which is the marker only while nobody removed it.
signal_write(s, kind, text) ==
    /\ po.snd[s].pc = "opened"
    /\ po.snd[s].kind = kind
    /\ po' = [po EXCEPT !.snd[s].pc = "done",
                        !.show = IF kind = "show" /\ po.snd[s].live
                                 THEN [exists |-> TRUE, content |-> text] ELSE @,
                        !.sel = IF kind = "selection" /\ po.snd[s].live
                                THEN [exists |-> TRUE, content |-> text] ELSE @]
    /\ UNCHANGED <<pc, fd, lockPath, flockOwner, nextInode, showSignal, selSignal, savedState,
                   app, exitCode, sg, cl, ui>>

\* send_show_signal: open(SHOW_SIGNAL_FILE, 'w')
send_show_signal_open(s) == signal_open(s, "show")

\* send_show_signal: f.write('show'), and the file is closed
send_show_signal_write(s) == signal_write(s, "show", SHOW)

\* send_selection_translate_signal: open(SELECTION_TRANSLATE_SIGNAL_FILE, 'w')
send_selection_translate_signal_open(s) == signal_open(s, "selection")

\* send_selection_translate_signal: f.write('translate'), and the file is closed
send_selection_translate_signal_write(s) == signal_write(s, "selection", TRANSLATE)

\* os.remove(FILE): the name is gone; handles that senders hold on the file
\* no longer lead to the marker.
removed(kind) ==
    [po EXCEPT !.show = IF kind = "show" THEN NoFile ELSE @,
               !.sel = IF kind = "selection" THEN NoFile ELSE @,
               !.snd = [s \in Senders |->
                           IF po.snd[s].kind = kind THEN [po.snd[s] EXCEPT !.live = FALSE]
                           ELSE po.snd[s]]]

\* _check_signal is run, by _start_signal_listener the first time and by the
\* event loop's timer afterwards: a poll begins. atStart notes which markers
\* are there, complete, at this moment; errors will note the try blocks that
\* end in their except clause; pending counts the scheduled next polls.
_check_signal_begin(p) ==
    /\ po.pol[p].pc = "wait"
    /\ po.pol[p].cycle < MaxPolls
    /\ po' = [po EXCEPT !.pol[p] =
                 [pc |-> "show_exists", content |-> <<>>, cycle |-> @.cycle + 1,
                  atStart |-> {k \in Kinds : marker(k).exists
                                              /\ (k = "show" => marker(k).content = SHOW)},
                  deleted |-> {}, acts |-> <<>>, errors |-> {}, pending |-> 0]]
    /\ UNCHANGED <<pc, fd, lockPath, flockOwner, nextInode, showSignal, selSignal, savedState,
                   app, exitCode, sg, cl, ui>>

\* _check_signal: os.path.exists(SHOW_SIGNAL_FILE)
_check_signal_show_exists(p) ==
    /\ po.pol[p].pc = "show_exists"
    /\ po' = [po EXCEPT !.pol[p].pc = IF po.show.exists THEN "show_read" ELSE "sel_exists"]
    /\ UNCHANGED <<pc, fd, lockPath, flockOwner, nextInode, showSignal, selSignal, savedState,
                   app, exitCode, sg, cl, ui>>

\* The mutation of the read of the show marker in which the error of a file
\* that is gone leaves _check_signal.
_check_signal_show_read_uncaught(p) ==
    /\ po.pol[p].pc = "show_read"
    /\ po' = IF po.show.exists
             THEN [po EXCEPT !.pol[p].pc = "show_remove",
                             !.pol[p].content = strip(po.show.content)]
             ELSE [po EXCEPT !.pol[p].pc = "stopped"]
    /\ UNCHANGED <<pc, fd, lockPath, flockOwner, nextInode, showSignal, selSignal, savedState,
                   app, exitCode, sg, cl, ui>>

\* _check_signal: open(SHOW_SIGNAL_FILE, 'r'), f.read().strip(). A file that
\* is gone raises, and the except clause of the first try block is taken.
_check_signal_show_read(p) ==
    /\ po.pol[p].pc = "show_read"
    /\ po' = IF po.show.exists
             THEN [po EXCEPT !.pol[p].pc = "show_remove",
                             !.pol[p].content = strip(po.show.content)]
             ELSE [po EXCEPT !.pol[p].pc = "sel_exists", !.pol[p].errors = @ \cup {"show"}]
    /\ UNCHANGED <<pc, fd, lockPath, flockOwner, nextInode, showSignal, selSignal, savedState,
                   app, exitCode, sg, cl, ui>>

\* The mutation of the removal of the show marker that leaves the file.
_check_signal_show_remove_keep(p) ==
    /\ po.pol[p].pc = "show_remove"
    /\ po' = [po EXCEPT !.pol[p].pc = "show_act", !.pol[p].deleted = @ \cup {"show"}]
    /\ UNCHANGED <<pc, fd, lockPath, flockOwner, nextInode, showSignal, selSignal, savedState,
                   app, exitCode, sg, cl, ui>>

\* _check_signal: os.remove(SHOW_SIGNAL_FILE)
_check_signal_show_remove(p) ==
    /\ po.pol[p].pc = "show_remove"
    /\ po' = IF po.show.exists
             THEN [removed("show") EXCEPT !.pol[p].pc = "show_act",
                                          !.pol[p].deleted = @ \cup {"show"}]
             ELSE [po EXCEPT !.pol[p].pc = "sel_exists", !.pol[p].errors = @ \cup {"show"}]
    /\ UNCHANGED <<pc, fd, lockPath, flockOwner, nextInode, showSignal, selSignal, savedState,
                   app, exitCode, sg, cl, ui>>

\* _check_signal: `if content == 'show': self._do_show_window()`. The call
\* may raise (a Tk error); the except clause then ends the first try block.
_check_signal_show_act(p, raises) ==
    /\ po.pol[p].pc = "show_act"
    /\ po' = IF po.pol[p].content = SHOW
             THEN [po EXCEPT !.pol[p].pc = "sel_exists",
                             !.pol[p].acts = Append(@, [kind |-> "show", raised |-> raises]),
                             !.pol[p].errors = IF raises THEN @ \cup {"show"} ELSE @,
                             !.handled["show"] = @ + 1]
             ELSE [po EXCEPT !.pol[p].pc = "sel_exists"]
    /\ UNCHANGED <<pc, fd, lockPath, flockOwner, nextInode, showSignal, selSignal, savedState,
                   app, exitCode, sg, cl, ui>>

\* _check_signal: os.path.exists(SELECTION_TRANSLATE_SIGNAL_FILE)
_check_signal_sel_exists(p) ==
    /\ po.pol[p].pc = "sel_exists"
    /\ po' = [po EXCEPT !.pol[p].pc = IF po.sel.exists THEN "sel_remove" ELSE "reschedule"]
    /\ UNCHANGED <<pc, fd, lockPath, flockOwner, nextInode, showSignal, selSignal, savedState,
                   app, exitCode, sg, cl, ui>>

\* _check_signal: os.remove(SELECTION_TRANSLATE_SIGNAL_FILE)
_check_signal_sel_remove(p) ==
    /\ po.pol[p].pc = "sel_remove"
    /\ po' = IF po.sel.exists
             THEN [removed("selection") EXCEPT !.pol[p].pc = "sel_act",
                                               !.pol[p].deleted = @ \cup {"selection"}]
             ELSE [po EXCEPT !.pol[p].pc = "reschedule",
                             !.pol[p].errors = @ \cup {"selection"}]
    /\ UNCHANGED <<pc, fd, lockPath, flockOwner, nextInode, showSignal, selSignal, savedState,
                   app, exitCode, sg, cl, ui>>

\* _check_signal: self._do_selection_translate(), which returns at once when
\* selection translation is disabled and may raise otherwise.
_check_signal_sel_act(p, raises) ==
    /\ po.pol[p].pc = "sel_act"
    /\ raises => po.enabled
    /\ po' = [po EXCEPT !.pol[p].pc = "reschedule",
                        !.pol[p].acts = Append(@, [kind |-> "selection", raised |-> raises]),
                        !.pol[p].errors = IF raises THEN @ \cup {"selection"} ELSE @,
                        !.handled["selection"] = @ + 1]
    /\ UNCHANGED <<pc, fd, lockPath, flockOwner, nextInode, showSignal, selSignal, savedState,
                   app, exitCode, sg, cl, ui>>

\* _check_signal: self.root.after(200, self._check_signal)
_check_signal_reschedule(p) ==
    /\ po.pol[p].pc = "reschedule"
    /\ po' = [po EXCEPT !.pol[p].pc = "wait", !.pol[p].pending = @ + 1]
    /\ UNCHANGED <<pc, fd, lockPath, flockOwner, nextInode, showSignal, selSignal, savedState,
                   app, exitCode, sg, cl, ui>>

\* The markers alone: senders write them while the instances poll.
InitPoll ==
    /\ CoordOff
    /\ savedState = FALSE
    /\ sg = SignIdle
    /\ cl = ClientIdle
    /\ PollInit
    /\ ui = UiIdle

NextPoll ==
    \/ \E s \in Senders : send_show_signal_open(s)
    \/ \E s \in Senders : send_show_signal_write(s)
    \/ \E s \in Senders : send_selection_translate_signal_open(s)
    \/ \E s \in Senders : send_selection_translate_signal_write(s)
    \/ \E p \in Pollers : _check_signal_begin(p)
    \/ \E p \in Pollers : _check_signal_show_exists(p)
    \/ \E p \in Pollers : _check_signal_show_read(p)
    \/ \E p \in Pollers : _check_signal_show_remove(p)
    \/ \E p \in Pollers, raises \in BOOLEAN : _check_signal_show_act(p, raises)
    \/ \E p \in Pollers : _check_signal_sel_exists(p)
    \/ \E p \in Pollers : _check_signal_sel_remove(p)
    \/ \E p \in Pollers, raises \in BOOLEAN : _check_signal_sel_act(p, raises)
    \/ \E p \in Pollers : _check_signal_reschedule(p)

SpecPoll == InitPoll /\ [][NextPoll]_vars

\* The marker files are in /tmp: a marker can be removed by someone other
\* than this instance's poll (a second polling instance, the user).
marker_removed_elsewhere(kind) ==
    /\ marker(kind).exists
    /\ po' = removed(kind)
    /\ UNCHANGED <<pc, fd, lockPath, flockOwner, nextInode, showSignal, selSignal, savedState,
                   app, exitCode, sg, cl, ui>>

\* The markers with senders, the poll and removals the poll does not make.
NextPollEnv ==
    \/ \E s \in Senders : send_show_signal_open(s)
    \/ \E s \in Senders : send_show_signal_write(s)
    \/ \E s \in Senders : send_selection_translate_signal_open(s)
    \/ \E s \in Senders : send_selection_translate_signal_write(s)
    \/ \E kind \in Kinds : marker_removed_elsewhere(kind)
    \/ \E p \in Pollers : _check_signal_begin(p)
    \/ \E p \in Pollers : _check_signal_show_exists(p)
    \/ \E p \in Pollers : _check_signal_show_read(p)
    \/ \E p \in Pollers : _check_signal_show_remove(p)
    \/ \E p \in Pollers, raises \in BOOLEAN : _check_signal_show_act(p, raises)
    \/ \E p \in Pollers : _check_signal_sel_exists(p)
    \/ \E p \in Pollers : _check_signal_sel_remove(p)
    \/ \E p \in Pollers, raises \in BOOLEAN : _check_signal_sel_act(p, raises)
    \/ \E p \in Pollers : _check_signal_reschedule(p)

SpecPollEnv == InitPoll /\ [][NextPollEnv]_vars

(***************************************************************************)
(* The window of one instance: triggers, worker threads, event loop        *)
(***************************************************************************)
MaxCalls == 2

\* YoudaoTranslator.LANGUAGES, two of its entries: "自动检测" and "中文简体".
LANGUAGES == {<<"<auto-detect>", "auto">>, <<"<chinese-simplified>", "zh-CHS">>}
LangNames == {l[1] : l \in LANGUAGES}

\* LANGUAGES.get(name, default)
LANGUAGES_get(name, default) ==
    IF \E l \in LANGUAGES : l[1] = name THEN (CHOOSE l \in LANGUAGES : l[1] = name)[2]
    ELSE default

\* The status line's texts.
\* "就绪 - Ctrl+V 粘贴图片自动OCR识别"
ST_READY == <<"<ready>">>
\* "请输入要翻译的文本"
ST_ENTER_TEXT == <<"<enter the text to translate>">>
\* "源语言和目标语言不能相同"
ST_SAME_LANGUAGE == <<"<source and target language must differ>">>
\* "翻译中..."
ST_TRANSLATING == <<"<translating>">>
\* "翻译完成 ✓"
ST_DONE == <<"<translation done>">>
\* "错误: "
ST_ERROR == <<"<error: >">>
\* "已清空"
ST_CLEARED == <<"<cleared>">>
\* "未检测到选中文本"
ST_NO_SELECTION == <<"<no selected text found>">>
\* "动态翻译已开启"
ST_AUTO_ON == <<"<dynamic translation on>">>
\* "动态翻译已关闭"
ST_AUTO_OFF == <<"<dynamic translation off>">>

\* What the user types, and what xclip returns as the selection.
InputTexts == {<<" ">>, <<"a">>}
SelectedTexts == {<<>>, <<"a">>}

\* What translator.translate returns to the worker with number w: a success
\* with a translation of its own, or a failure.
translate_result(w, success) ==
    IF success THEN [success |-> TRUE, translation |-> <<"T">> \o str_int(w), error |-> <<>>]
    ELSE [success |-> FALSE, translation |-> <<>>, error |-> MSG_TIMEOUT]

\* _current_image_data = None
NoImage == 0

\* The window after __init__: _create_window, _create_widgets, _init_tray.
UiInit ==
    ui \in [input : {<<>>}, from_lang_var : {"<auto-detect>"}, to_lang_var : {"<chinese-simplified>"},
            translate_btn : {"normal"}, output : {<<>>}, status : {ST_READY},
            auto_translate : {FALSE}, after_id : {FALSE},
            selection_translate_enabled : BOOLEAN, is_visible : {TRUE},
            calls : {0}, workers : {{}}, queue : {<<>>},
            image : {NoImage}, ocr_timers : {0}, ocr_calls : {0}, ocr : {{}},
            autostart : {FALSE}, clicks : {0}, offloop : {{}}, quit : {FALSE}]

\* The translation calls whose result _update_result has not delivered yet:
\* u.workers holds them, numbered in the order they were started.
InFlight(u) == {w.id : w \in u.workers}

\* The mutation of _translate's language check that lets every pair through.
same_language_unchecked(from_lang, to_lang) == FALSE

\* _translate: `from_lang == to_lang and from_lang != "auto"`
same_language(from_lang, to_lang) == from_lang = to_lang /\ from_lang # "auto"

\* _translate: the checks, then the button is disabled and a worker thread is
\* started with the text and the language codes it captured.
translate_from(u) ==
    LET text == strip(u.input)
        from_lang == LANGUAGES_get(u.from_lang_var, "auto")
        to_lang == LANGUAGES_get(u.to_lang_var, "en")
    IN  IF text = <<>> THEN [u EXCEPT !.status = ST_ENTER_TEXT]
        ELSE IF same_language(from_lang, to_lang) THEN [u EXCEPT !.status = ST_SAME_LANGUAGE]
        ELSE [u EXCEPT !.translate_btn = "disabled", !.status = ST_TRANSLATING,
                       !.calls = @ + 1,
                       !.workers = @ \cup {[id |-> u.calls + 1, text |-> text,
                                            from_lang |-> from_lang, to_lang |-> to_lang,
                                            st |-> "running"]}]

\* The checkbox flips auto_translate and runs _on_auto_translate_toggle, which
\* cancels a pending _delayed_translate when the box was cleared.
_on_auto_translate_toggle ==
    /\ ~ui.quit
    /\ ui' = IF ~ui.auto_translate
             THEN [ui EXCEPT !.auto_translate = TRUE, !.status = ST_AUTO_ON]
             ELSE [ui EXCEPT !.auto_translate = FALSE, !.status = ST_AUTO_OFF,
                             !.after_id = FALSE]
    /\ UNCHANGED <<pc, fd, lockPath, flockOwner, nextInode, showSignal, selSignal, savedState,
                   app, exitCode, sg, cl, po>>

\* A key is released in the input, which now holds text; _on_text_change
\* (re)schedules _delayed_translate when dynamic translation is on.
_on_text_change(text) ==
    /\ ~ui.quit
    /\ ui' = [ui EXCEPT !.input = text, !.after_id = ui.auto_translate]
    /\ UNCHANGED <<pc, fd, lockPath, flockOwner, nextInode, showSignal, selSignal, savedState,
                   app, exitCode, sg, cl, po>>

\* The user picks a source and a target language in the two comboboxes.
select_languages(from_name, to_name) ==
    /\ ~ui.quit
    /\ <<ui.from_lang_var, ui.to_lang_var>> # <<from_name, to_name>>
    /\ ui' = [ui EXCEPT !.from_lang_var = from_name, !.to_lang_var = to_name]
    /\ UNCHANGED <<pc, fd, lockPath, flockOwner, nextInode, showSignal, selSignal, savedState,
                   app, exitCode, sg, cl, po>>

\* _swap_languages: nothing when the source is "自动检测".
_swap_languages ==
    /\ ~ui.quit
    /\ ui.from_lang_var # "<auto-detect>"
    /\ ui.from_lang_var # ui.to_lang_var
    /\ ui' = [ui EXCEPT !.from_lang_var = ui.to_lang_var, !.to_lang_var = ui.from_lang_var]
    /\ UNCHANGED <<pc, fd, lockPath, flockOwner, nextInode, showSignal, selSignal, savedState,
                   app, exitCode, sg, cl, po>>

\* The translate button, which runs _translate; a disabled button does not.
translate_btn_command ==
    /\ ~ui.quit
    /\ ui.translate_btn = "normal"
    /\ ui.calls < MaxCalls
    /\ ui' = translate_from(ui)
    /\ UNCHANGED <<pc, fd, lockPath, flockOwner, nextInode, showSignal, selSignal, savedState,
                   app, exitCode, sg, cl, po>>

\* _on_enter_press: the Return key in the input runs _translate.
_on_enter_press ==
    /\ ~ui.quit
    /\ ui.calls < MaxCalls
    /\ ui' = translate_from(ui)
    /\ UNCHANGED <<pc, fd, lockPath, flockOwner, nextInode, showSignal, selSignal, savedState,
                   app, exitCode, sg, cl, po>>

\* _delayed_translate: the debounce timer fires; a text that is not blank is
\* translated.
_delayed_translate ==
    /\ ~ui.quit
    /\ ui.after_id
    /\ ui.calls < MaxCalls
    /\ ui' = IF strip(ui.input) # <<>> THEN translate_from([ui EXCEPT !.after_id = FALSE])
             ELSE [ui EXCEPT !.after_id = FALSE]
    /\ UNCHANGED <<pc, fd, lockPath, flockOwner, nextInode, showSignal, selSignal, savedState,
                   app, exitCode, sg, cl, po>>

\* The mutation of _do_selection_translate without its first test.
selection_translate_always(u, selected_text) ==
    IF selected_text = <<>>
    THEN [u EXCEPT !.is_visible = TRUE, !.status = ST_NO_SELECTION]
    ELSE translate_from([u EXCEPT !.is_visible = TRUE, !.input = selected_text])

\* _do_selection_translate: nothing when selection translation is disabled;
\* otherwise the window is shown and the selected text, when there is one,
\* replaces the input and is translated.
selection_translate_from(u, selected_text) ==
    IF ~u.selection_translate_enabled THEN u
    ELSE IF selected_text = <<>>
    THEN [u EXCEPT !.is_visible = TRUE, !.status = ST_NO_SELECTION]
    ELSE translate_from([u EXCEPT !.is_visible = TRUE, !.input = selected_text])

\* _do_selection_translate, run by the poll on a selection marker.
_do_selection_translate(selected_text) ==
    /\ ~ui.quit
    /\ ui.calls < MaxCalls
    /\ ui' = selection_translate_from(ui, selected_text)
    /\ UNCHANGED <<pc, fd, lockPath, flockOwner, nextInode, showSignal, selSignal, savedState,
                   app, exitCode, sg, cl, po>>

\* do_translate, on a worker thread: translator.translate returns and the
\* result is handed to the event loop with root.after(0, ...).
do_translate(w, success) ==
    /\ ~ui.quit
    /\ \E t \in ui.workers :
          /\ t.id = w
          /\ t.st = "running"
          /\ ui' = [ui EXCEPT !.workers = (@ \ {t}) \cup {[t EXCEPT !.st = "posted"]},
                              !.queue = Append(@, [f |-> "_update_result", w |-> w,
                                                   result |-> translate_result(w, success)])]
    /\ UNCHANGED <<pc, fd, lockPath, flockOwner, nextInode, showSignal, selSignal, savedState,
                   app, exitCode, sg, cl, po>>

\* The mutation of _update_result that keeps an output already shown.
update_result_keep(u, result) ==
    IF result.success /\ u.output = <<>>
    THEN [u EXCEPT !.translate_btn = "normal", !.output = result.translation,
                   !.status = ST_DONE]
    ELSE [u EXCEPT !.translate_btn = "normal", !.status = ST_ERROR \o result.error]

\* _update_result: the button is enabled again; a success replaces the
\* output, a failure goes to the status line (and a message box).
update_result(u, result) ==
    IF result.success
    THEN [u EXCEPT !.translate_btn = "normal", !.output = result.translation,
                   !.status = ST_DONE]
    ELSE [u EXCEPT !.translate_btn = "normal", !.status = ST_ERROR \o result.error]

\* The event loop runs the _update_result call at the head of its queue.
_update_result ==
    /\ ~ui.quit
    /\ ui.queue # <<>>
    /\ Head(ui.queue).f = "_update_result"
    /\ ui' = [update_result(ui, Head(ui.queue).result) EXCEPT
                  !.queue = Tail(ui.queue),
                  !.workers = {t \in @ : t.id # Head(ui.queue).w}]
    /\ UNCHANGED <<pc, fd, lockPath, flockOwner, nextInode, showSignal, selSignal, savedState,
                   app, exitCode, sg, cl, po>>

\* _clear: input, output and the current image are emptied.
_clear ==
    /\ ~ui.quit
    /\ ui' = [ui EXCEPT !.input = <<>>, !.output = <<>>, !.image = NoImage,
                        !.status = ST_CLEARED]
    /\ UNCHANGED <<pc, fd, lockPath, flockOwner, nextInode, showSignal, selSignal, savedState,
                   app, exitCode, sg, cl, po>>

\* The window alone: the user, the poll's selection signal, the workers.
InitUI ==
    /\ CoordOff
    /\ savedState = FALSE
    /\ sg = SignIdle
    /\ cl = ClientIdle
    /\ po = PollIdle
    /\ UiInit

NextUI ==
    \/ _on_auto_translate_toggle
    \/ \E text \in InputTexts : _on_text_change(text)
    \/ \E from_name \in LangNames, to_name \in LangNames : select_languages(from_name, to_name)
    \/ _swap_languages
    \/ translate_btn_command
    \/ _on_enter_press
    \/ _delayed_translate
    \/ \E selected_text \in SelectedTexts : _do_selection_translate(selected_text)
    \/ \E w \in 1..MaxCalls, success \in BOOLEAN : do_translate(w, success)
    \/ _update_result
    \/ _clear

SpecUI == InitUI /\ [][NextUI]_vars

(***************************************************************************)
(* The window's threads: OCR workers and the tray icon                     *)
(***************************************************************************)
\* The pastes, tray menu clicks and window closes of one run.
MaxClicks == 3

\* The images the clipboard can hold.
ClipboardImages == {1, 2}

\* "请先粘贴或选择图片"
ST_NO_IMAGE == <<"<paste or choose an image first>">>
\* "OCR识别中..."
ST_OCR_RUNNING == <<"<recognizing>">>
\* "OCR识别完成，识别到 " ... " 个字符"
ST_OCR_DONE == <<"<recognition done, characters: >">>
\* "OCR识别失败: "
ST_OCR_FAILED == <<"<recognition failed: >">>
\* "划词翻译已开启"
ST_SELECTION_ON == <<"<selection translate on>">>
\* "划词翻译已关闭"
ST_SELECTION_OFF == <<"<selection translate off>">>
\* "已启用开机自启动"
ST_AUTOSTART_ON == <<"<autostart enabled>">>
\* "已关闭开机自启动"
ST_AUTOSTART_OFF == <<"<autostart disabled>">>

\* What ocr.recognize returns for an image: the text it holds, or a failure.
recognize_result(image, success) ==
    IF success THEN [success |-> TRUE, text |-> <<"O">> \o str_int(image), error |-> <<>>,
                     image |-> image]
    ELSE [success |-> FALSE, text |-> <<>>, error |-> MSG_TIMEOUT, image |-> image]

\* An access to the application's state made by a thread other than the one
\* running the event loop.
Access(thread, name, access) == [thread |-> thread, name |-> name, access |-> access]

\* _paste_image: the clipboard's image becomes the current one (_set_image)
\* and _do_ocr is scheduled with root.after(100, ...).
_paste_image(image_data) ==
    /\ ~ui.quit
    /\ ui.clicks < MaxClicks
    /\ ui' = [ui EXCEPT !.clicks = @ + 1, !.image = image_data, !.ocr_timers = @ + 1]
    /\ UNCHANGED <<pc, fd, lockPath, flockOwner, nextInode, showSignal, selSignal, savedState,
                   app, exitCode, sg, cl, po>>

\* _do_ocr, when its timer fires: without an image a status text; otherwise
\* a worker thread is started, which is given the language only.
_do_ocr ==
    /\ ~ui.quit
    /\ ui.ocr_timers > 0
    /\ ui' = IF ui.image = NoImage
             THEN [ui EXCEPT !.ocr_timers = @ - 1, !.ocr_calls = @ + 1, !.status = ST_NO_IMAGE]
             ELSE [ui EXCEPT !.ocr_timers = @ - 1, !.ocr_calls = @ + 1,
                             !.status = ST_OCR_RUNNING,
                             !.ocr = @ \cup {[id |-> ui.ocr_calls + 1, at_start |-> ui.image]}]
    /\ UNCHANGED <<pc, fd, lockPath, flockOwner, nextInode, showSignal, selSignal, savedState,
                   app, exitCode, sg, cl, po>>

\* do_ocr_thread, on a worker thread: self._current_image_data is read now,
\* recognize is called with it and the result is handed to the event loop.
\* base64.b64encode(None) raises TypeError: the thread ends without a result.
do_ocr_thread(w, success) ==
    /\ ~ui.quit
    /\ \E t \in ui.ocr :
          /\ t.id = w
          /\ ui' = [ui EXCEPT
                       !.ocr = @ \ {t},
                       !.offloop = @ \cup {Access("ocr", "_current_image_data", "read")},
                       !.queue = IF ui.image = NoImage THEN @
                                 ELSE Append(@, [f |-> "_on_ocr_complete", w |-> w,
                                                 at_start |-> t.at_start,
                                                 result |-> recognize_result(ui.image,
                                                                             success)])]
    /\ UNCHANGED <<pc, fd, lockPath, flockOwner, nextInode, showSignal, selSignal, savedState,
                   app, exitCode, sg, cl, po>>

\* _on_ocr_complete, run by the event loop: the recognized text replaces the
\* input.
_on_ocr_complete ==
    /\ ~ui.quit
    /\ ui.queue # <<>>
    /\ Head(ui.queue).f = "_on_ocr_complete"
    /\ LET result == Head(ui.queue).result
       IN  ui' = IF result.success
                 THEN [ui EXCEPT !.queue = Tail(@), !.input = result.text,
                                 !.status = ST_OCR_DONE \o str_int(Len(result.text))]
                 ELSE [ui EXCEPT !.queue = Tail(@),
                                 !.status = ST_OCR_FAILED \o result.error]
    /\ UNCHANGED <<pc, fd, lockPath, flockOwner, nextInode, showSignal, selSignal, savedState,
                   app, exitCode, sg, cl, po>>

\* _on_close with a tray icon: the window is withdrawn.
withdraw_on_close ==
    /\ ~ui.quit
    /\ ui.is_visible
    /\ ui.clicks < MaxClicks
    /\ ui' = [ui EXCEPT !.clicks = @ + 1, !.is_visible = FALSE]
    /\ UNCHANGED <<pc, fd, lockPath, flockOwner, nextInode, showSignal, selSignal, savedState,
                   app, exitCode, sg, cl, po>>

\* The tray menu's entries, run by pystray on the tray thread.
\* '显示窗口': _show_window hands _do_show_window to the event loop.
_show_window ==
    /\ ~ui.quit
    /\ ui.clicks < MaxClicks
    /\ ui' = [ui EXCEPT !.clicks = @ + 1, !.queue = Append(@, [f |-> "_do_show_window"])]
    /\ UNCHANGED <<pc, fd, lockPath, flockOwner, nextInode, showSignal, selSignal, savedState,
                   app, exitCode, sg, cl, po>>

\* '划词翻译': _toggle_selection_translate hands _do_toggle_selection_translate
\* to the event loop.
_toggle_selection_translate ==
    /\ ~ui.quit
    /\ ui.clicks < MaxClicks
    /\ ui' = [ui EXCEPT !.clicks = @ + 1,
                        !.queue = Append(@, [f |-> "_do_toggle_selection_translate"])]
    /\ UNCHANGED <<pc, fd, lockPath, flockOwner, nextInode, showSignal, selSignal, savedState,
                   app, exitCode, sg, cl, po>>

\* '开机自启动': _toggle_autostart hands _do_toggle_autostart to the event loop.
_toggle_autostart ==
    /\ ~ui.quit
    /\ ui.clicks < MaxClicks
    /\ ui' = [ui EXCEPT !.clicks = @ + 1, !.queue = Append(@, [f |-> "_do_toggle_autostart"])]
    /\ UNCHANGED <<pc, fd, lockPath, flockOwner, nextInode, showSignal, selSignal, savedState,
                   app, exitCode, sg, cl, po>>

\* '退出': _quit_app itself is the menu entry's action. It runs on the tray
\* thread: _save_state reads the window's geometry and
\* selection_translate_enabled and writes the state file, then root.quit().
menu_quit_app ==
    /\ ~ui.quit
    /\ savedState' = ui.selection_translate_enabled
    /\ ui' = [ui EXCEPT
                 !.quit = TRUE,
                 !.offloop = @ \cup {Access("tray", "root", "winfo"),
                                     Access("tray", "selection_translate_enabled", "read"),
                                     Access("tray", "root", "quit")}]
    /\ UNCHANGED <<pc, fd, lockPath, flockOwner, nextInode, showSignal, selSignal, app, exitCode,
                   sg, cl, po>>

\* _do_show_window, run by the event loop.
_do_show_window ==
    /\ ~ui.quit
    /\ ui.queue # <<>>
    /\ Head(ui.queue).f = "_do_show_window"
    /\ ui' = [ui EXCEPT !.queue = Tail(@), !.is_visible = TRUE]
    /\ UNCHANGED <<pc, fd, lockPath, flockOwner, nextInode, showSignal, selSignal, savedState,
                   app, exitCode, sg, cl, po>>

\* _do_toggle_selection_translate, run by the event loop; it saves the state.
_do_toggle_selection_translate ==
    /\ ~ui.quit
    /\ ui.queue # <<>>
    /\ Head(ui.queue).f = "_do_toggle_selection_translate"
    /\ savedState' = ~ui.selection_translate_enabled
    /\ ui' = [ui EXCEPT !.queue = Tail(@), !.selection_translate_enabled = ~@,
                        !.status = IF ~ui.selection_translate_enabled THEN ST_SELECTION_ON
                                   ELSE ST_SELECTION_OFF]
    /\ UNCHANGED <<pc, fd, lockPath, flockOwner, nextInode, showSignal, selSignal, app, exitCode,
                   sg, cl, po>>

\* _do_toggle_autostart, run by the event loop.
_do_toggle_autostart ==
    /\ ~ui.quit
    /\ ui.queue # <<>>
    /\ Head(ui.queue).f = "_do_toggle_autostart"
    /\ ui' = [ui EXCEPT !.queue = Tail(@), !.autostart = ~@,
                        !.status = IF ui.autostart THEN ST_AUTOSTART_OFF
                                   ELSE ST_AUTOSTART_ON]
    /\ UNCHANGED <<pc, fd, lockPath, flockOwner, nextInode, showSignal, selSignal, savedState,
                   app, exitCode, sg, cl, po>>

\* The window with its worker threads and its tray icon.
InitThreads ==
    /\ CoordOff
    /\ savedState \in BOOLEAN
    /\ sg = SignIdle
    /\ cl = ClientIdle
    /\ po = PollIdle
    /\ UiInit
    /\ ui.selection_translate_enabled = savedState

NextThreads ==
    \/ _clear
    \/ \E image_data \in ClipboardImages : _paste_image(image_data)
    \/ _do_ocr
    \/ \E w \in 1..MaxClicks, success \in BOOLEAN : do_ocr_thread(w, success)
    \/ _on_ocr_complete
    \/ withdraw_on_close
    \/ _show_window
    \/ _toggle_selection_translate
    \/ _toggle_autostart
    \/ menu_quit_app
    \/ _do_show_window
    \/ _do_toggle_selection_translate
    \/ _do_toggle_autostart

SpecThreads == InitThreads /\ [][NextThreads]_vars

(***************************************************************************)
(* The selection marker and the window                                     *)
(***************************************************************************)
\* `main.py --selection-translate` from its start to its exit: the marker is
\* written. A marker that is there already is written again with the same
\* text, which changes nothing here.
selection_translate_signal_sent ==
    /\ selSignal = Absent
    /\ selSignal' = TRANSLATE
    /\ UNCHANGED <<pc, fd, lockPath, flockOwner, nextInode, showSignal, savedState, app,
                   exitCode, sg, cl, po, ui>>

\* _check_signal, its second try block, when the selection marker is there:
\* os.remove(SELECTION_TRANSLATE_SIGNAL_FILE), then _do_selection_translate.
\* po.ignored counts the markers consumed while selection translation was
\* disabled.
_check_signal_selection(selected_text) ==
    /\ ~ui.quit
    /\ selSignal # Absent
    /\ IF ui.selection_translate_enabled THEN ui.calls < MaxCalls
       ELSE po.ignored < MaxPolls
    /\ selSignal' = Absent
    /\ ui' = selection_translate_from(ui, selected_text)
    /\ po' = IF ui.selection_translate_enabled THEN po ELSE [po EXCEPT !.ignored = @ + 1]
    /\ UNCHANGED <<pc, fd, lockPath, flockOwner, nextInode, showSignal, savedState, app,
                   exitCode, sg, cl>>

\* The window of the one instance and `main.py --selection-translate` run
\* by other processes.
InitSelection ==
    /\ CoordInit
    /\ sg = SignIdle
    /\ cl = ClientIdle
    /\ po = [pc |-> "selection", ignored |-> 0]
    /\ UiInit
    /\ ui.selection_translate_enabled = savedState

NextSelection ==
    \/ selection_translate_signal_sent
    \/ \E selected_text \in SelectedTexts : _check_signal_selection(selected_text)
    \/ \E text \in InputTexts : _on_text_change(text)
    \/ \E w \in 1..MaxCalls, success \in BOOLEAN : do_translate(w, success)
    \/ _update_result
    \/ withdraw_on_close
    \/ _toggle_selection_translate
    \/ _do_toggle_selection_translate

SpecSelection == InitSelection /\ [][NextSelection]_vars

(***************************************************************************)
(* Claims about the coordinator                                            *)
(***************************************************************************)

\* C1: across every interleaving of startups and shutdowns, at most one live
\* process holds a successful exclusive lock and runs the application.
C1_AtMostOnePrimary == Cardinality({p \in Procs : IsPrimary(p) /\ HoldsLock(p)}) <= 1

\* One step of process p, as C2 has it.
C2_Step(p) ==
    /\ (pc[p] = "flock" /\ pc'[p] # "flock" /\ \E q \in Procs \ {p} : HoldsLock(q))
           => pc'[p] = "secondary_send"
    /\ (pc[p] = "secondary_send" /\ pc'[p] # "secondary_send")
           => /\ showSignal' = SHOW \/ selSignal' = TRANSLATE
              /\ pc'[p] = "secondary_exit"
    /\ (pc[p] = "secondary_exit" /\ pc'[p] # "secondary_exit")
           => /\ pc'[p] = "secondary_done"
              /\ exitCode'[p] = 0
              /\ app'[p] = NoApp

\* C2: a process that attempts the lock while another process holds it fails
\* to acquire it, writes a marker reading 'show' or 'translate', and exits
\* with status 0 having created no window, polled no signal and called no API.
C2_SecondarySignalsAndExits == [][\A p \in Procs : C2_Step(p)]_vars

\* C17: on shutdown the unlock, the close and the removal are best-effort: a
\* failure of any of them is ignored, so no error leaves main() and the
\* process ends with status 0, its later cleanup steps not skipped.
C17_CleanupIsBestEffort ==
    \A p \in Procs : pc[p] # "raised" /\ exitCode[p] \in {NotExited, 0}

(***************************************************************************)
(* Claims about the poll                                                   *)
(***************************************************************************)

\* The kinds of the actions a poll has performed so far, in their order.
C14_Performed(p) == [i \in 1..Len(po.pol[p].acts) |-> po.pol[p].acts[i].kind]

\* C14: in every poll the show marker is handled before the selection
\* marker; a poll that began with both markers there has, at its end, deleted
\* both and performed both actions, show first; and a selection marker that
\* was there at the start is handled whether or not the show action raised.
C14_ShowThenSelectionInOneCycle ==
    \A p \in Pollers :
        /\ C14_Performed(p) \in {<<>>, <<"show">>, <<"selection">>, <<"show", "selection">>}
        /\ po.pol[p].pc = "reschedule" =>
               /\ po.pol[p].atStart = Kinds =>
                      /\ po.pol[p].deleted = Kinds
                      /\ C14_Performed(p) = <<"show", "selection">>
               /\ "selection" \in po.pol[p].atStart =>
                      \E i \in 1..Len(po.pol[p].acts) : po.pol[p].acts[i].kind = "selection"

\* How many actions of a kind a poll has performed so far.
C15_Count(p, kind) ==
    Cardinality({i \in 1..Len(po.pol[p].acts) : po.pol[p].acts[i].kind = kind})

\* C15: the markers are single-slot and one-shot: a poll performs at most one
\* action of a kind, however many senders wrote the marker before it; a
\* marker whose action is performed was deleted first; and never are there
\* more actions of a kind than writes of its marker.
C15_SingleSlotOneShot ==
    /\ \A k \in Kinds : po.handled[k] <= po.sends[k]
    /\ \A p \in Pollers, k \in Kinds :
           /\ C15_Count(p, k) <= 1
           /\ C15_Count(p, k) = 1 => k \in po.pol[p].deleted

\* Two senders wrote the show marker, both before the first poll began; two
\* polls later one show action has been performed and no marker is left.
C15_Witness ==
    /\ po.sends["show"] = 2
    /\ \A s \in Senders : po.snd[s].kind = "show" => po.snd[s].pc = "done" /\ po.snd[s].live = FALSE
    /\ \E p \in Pollers :
           /\ po.pol[p].pc = "wait"
           /\ po.pol[p].cycle = MaxPolls
           /\ po.pol[p].atStart = {}
    /\ po.handled["show"] = 1
    /\ ~po.show.exists

\* A poll of p is being executed.
C21_Executing(p) ==
    po.pol[p].pc \in {"show_exists", "show_read", "show_remove", "show_act", "sel_exists",
                      "sel_remove", "sel_act", "reschedule"}

\* C21: every execution of _check_signal, whatever it found, ends by
\* scheduling exactly one next check: once the first poll has run there is,
\* outside the execution of a poll, exactly one pending poll, and none while
\* a poll is being executed, so the poll never stops.
C21_PollReschedulesItself ==
    \A p \in Pollers :
        po.pol[p].pending = IF po.pol[p].cycle = 0 \/ C21_Executing(p) THEN 0 ELSE 1

\* A poll has ended in which both markers were found and had been removed
\* by someone else before the poll could read or remove them: both try
\* blocks ended in their except clause, no action was performed, and the
\* next poll is scheduled.
C21_Witness ==
    \E p \in Pollers :
        /\ po.pol[p].pc = "wait"
        /\ po.pol[p].cycle >= 1
        /\ po.pol[p].errors = Kinds
        /\ po.pol[p].acts = <<>>
        /\ po.pol[p].pending = 1

\* C22: a show signal whose send_show_signal has returned is not lost: the
\* show action was performed, or the signal is still on its way to it (the
\* marker holds 'show' or a sender that will write it has it open, or a
\* poll has read 'show' and is about to act on it).
C22_ShowSignalIsDelivered ==
    (\E s \in Senders : po.snd[s].pc = "done" /\ po.snd[s].kind = "show") =>
        \/ po.handled["show"] >= 1
        \/ /\ po.show.exists
           /\ \/ strip(po.show.content) = SHOW
              \/ \E s \in Senders : /\ po.snd[s].pc = "opened"
                                    /\ po.snd[s].kind = "show"
                                    /\ po.snd[s].live
        \/ \E p \in Pollers : /\ po.pol[p].pc \in {"show_remove", "show_act"}
                              /\ po.pol[p].content = SHOW

\* C23: a marker that was written, whole, before the instance's first poll
\* began (the senders ask for no lock, so before the instance started as
\* well) is consumed by that first poll: at the end of the first poll it has
\* been deleted and its action has been performed.
C23_FirstPollConsumesEarlierMarkers ==
    \A p \in Pollers :
        (po.pol[p].cycle = 1 /\ po.pol[p].pc = "wait") =>
            \A k \in po.pol[p].atStart :
                /\ k \in po.pol[p].deleted
                /\ \E i \in 1..Len(po.pol[p].acts) : po.pol[p].acts[i].kind = k

(***************************************************************************)
(* Claims about the signer                                                 *)
(***************************************************************************)

\* The digest input as the provider's rule states it: the payload itself up
\* to 20 characters, otherwise its first 10 characters, its length in
\* decimal and its last 10 characters.
C3_DigestInput(q) ==
    IF Len(q) <= 20 THEN q
    ELSE [i \in 1..10 |-> q[i]] \o str_int(Len(q)) \o [i \in 1..10 |-> q[Len(q) - 10 + i]]

\* C3: the signature of either signer is the SHA-256 of
\* app_id + digest_input + salt + timestamp + secret, in that order and with
\* nothing between them; a payload of 20 characters is used verbatim, one of
\* 21 in the truncated form.
C3_SignatureIsDigestOfConcatenation ==
    sg.pc = "signed" =>
        sg.sign = sha256_hexdigest(encode_utf8(
                      sg.app_key \o C3_DigestInput(sg.query) \o sg.salt \o sg.curtime
                          \o sg.app_secret))

\* A payload of 21 characters was signed, in the truncated form.
C3_Witness ==
    /\ sg.pc = "signed"
    /\ Len(sg.query) = 21
    /\ sg.sign # sha256_hexdigest(encode_utf8(
                      sg.app_key \o sg.query \o sg.salt \o sg.curtime \o sg.app_secret))

\* The signature the signer that acted gives to other inputs.
C12_Sign(app_key, app_secret, query, salt, curtime) ==
    IF sg.signer = "YoudaoTranslator"
    THEN YoudaoTranslator_generate_sign(app_key, app_secret, query, salt, curtime)
    ELSE YoudaoOCR_generate_sign(app_key, app_secret, query, salt, curtime)

\* Changing the app id, the secret, the salt or the timestamp alone changes
\* the signature.
C12_OtherInputsChangeDigest ==
    /\ \A k \in AppKeys \ {sg.app_key} :
           C12_Sign(k, sg.app_secret, sg.query, sg.salt, sg.curtime) # sg.sign
    /\ \A s \in AppSecrets \ {sg.app_secret} :
           C12_Sign(sg.app_key, s, sg.query, sg.salt, sg.curtime) # sg.sign
    /\ \A u \in Salts \ {sg.salt} :
           C12_Sign(sg.app_key, sg.app_secret, sg.query, u, sg.curtime) # sg.sign
    /\ \A t \in Curtimes \ {sg.curtime} :
           C12_Sign(sg.app_key, sg.app_secret, sg.query, sg.salt, t) # sg.sign

\* C12 as stated: changing any one of app id, text, salt, timestamp and
\* secret, the other four fixed, changes the signature.
C12_AnyOneInputChangesDigest ==
    sg.pc = "signed" =>
        /\ C12_OtherInputsChangeDigest
        /\ \A q \in Payloads \ {sg.query} :
               C12_Sign(sg.app_key, sg.app_secret, q, sg.salt, sg.curtime) # sg.sign

\* Two texts that the truncation cannot tell apart: both longer than 20
\* characters, of the same length, with the same first 10 and the same last
\* 10 characters.
C12_SameAfterTruncation(q1, q2) ==
    /\ Len(q1) > 20
    /\ Len(q2) = Len(q1)
    /\ \A i \in 1..10 : q1[i] = q2[i] /\ q1[Len(q1) - 10 + i] = q2[Len(q2) - 10 + i]

\* C12, amended: changing the app id, the salt, the timestamp or the secret
\* alone changes the signature; changing the text alone changes it exactly
\* when the two texts are not the same after truncation.
C12_OneInputChangesDigestUpToTruncation ==
    sg.pc = "signed" =>
        /\ C12_OtherInputsChangeDigest
        /\ \A q \in Payloads \ {sg.query} :
               (C12_Sign(sg.app_key, sg.app_secret, q, sg.salt, sg.curtime) = sg.sign)
                   <=> C12_SameAfterTruncation(sg.query, q)

\* A text of 21 characters was signed; another text of 21 characters has the
\* same signature, and another salt has a different one.
C12_Witness ==
    /\ sg.pc = "signed"
    /\ Len(sg.query) = 21
    /\ \E q \in Payloads \ {sg.query} :
           /\ Len(q) = 21
           /\ C12_Sign(sg.app_key, sg.app_secret, q, sg.salt, sg.curtime) = sg.sign
    /\ \E u \in Salts \ {sg.salt} :
           C12_Sign(sg.app_key, sg.app_secret, sg.query, u, sg.curtime) # sg.sign

(***************************************************************************)
(* Claims about the clients                                                *)
(***************************************************************************)

\* C4: whatever the POST and the decoding of its answer produce, translate
\* and recognize return a result that carries a success flag; no exception
\* reaches the caller.
C4_AlwaysReturnsResult ==
    cl.pc = "done" => (cl.result.returned /\ cl.result.value.success \in BOOLEAN)

\* A text that is empty or made of whitespace only.
C5_IsBlank(t) == \A i \in 1..Len(t) : IsSpace(t[i])

\* C5: for an empty or whitespace-only text, translate returns success=false,
\* an empty translation and the empty-input message, and nothing goes to the
\* network: no request parameters (salt, curtime, sign) exist and no POST was
\* issued.
C5_EmptyTextRefusedLocally ==
    (cl.op = "translate" /\ C5_IsBlank(cl.text)) =>
        /\ cl.pc = "done"
        /\ cl.result = Returned([success |-> FALSE, translation |-> <<>>,
                                 error |-> MSG_EMPTY_TEXT, query |-> JStr(cl.text)])
        /\ cl.posts = 0
        /\ cl.params = NoParams
        /\ cl.outcome = NoOutcome

\* translate has returned for a text of two whitespace characters.
C5_Witness ==
    /\ cl.pc = "done"
    /\ cl.op = "translate"
    /\ cl.text = <<" ", "\n">>
    /\ cl.result.returned
    /\ ~cl.result.value.success
    /\ cl.posts = 0

\* Strings joined by newline, in their order.
RECURSIVE C6_Joined(_)
C6_Joined(strs) ==
    IF strs = <<>> THEN <<>>
    ELSE IF Len(strs) = 1 THEN strs[1].s
    ELSE C6_Joined(SubSeq(strs, 1, Len(strs) - 1)) \o <<"\n">> \o strs[Len(strs)].s

\* The answer is a dict with errorCode "0" whose translation is absent or a
\* list of strings.
C6_IsSuccessBody(v) ==
    /\ v.k = "obj"
    /\ "errorCode" \in DOMAIN v.f
    /\ v.f["errorCode"] = JStr(<<"0">>)
    /\ "translation" \in DOMAIN v.f =>
           /\ v.f["translation"].k = "list"
           /\ \A i \in 1..Len(v.f["translation"].items) :
                  v.f["translation"].items[i].k = "str"

C6_Segments(v) == IF "translation" \in DOMAIN v.f THEN v.f["translation"].items ELSE <<>>

\* C6: when the answer carries error code "0", translate returns
\* success=true, an empty error and the segments joined by newline in their
\* order; the empty string when the segment list is empty or absent.
C6_SuccessJoinsSegments ==
    (cl.pc = "done" /\ cl.op = "translate" /\ cl.outcome.at = "ok"
         /\ C6_IsSuccessBody(cl.outcome.value)) =>
        /\ cl.result.returned
        /\ cl.result.value.success
        /\ cl.result.value.error = <<>>
        /\ cl.result.value.translation = C6_Joined(C6_Segments(cl.outcome.value))

\* Two segments came back and were joined.
C6_Witness ==
    /\ cl.pc = "done"
    /\ cl.op = "translate"
    /\ cl.outcome.at = "ok"
    /\ C6_IsSuccessBody(cl.outcome.value)
    /\ C6_Segments(cl.outcome.value) = <<JStr(<<"A">>), JStr(<<"B">>)>>
    /\ cl.result.value.translation = <<"A", "\n", "B">>

\* The error code of an answer: a string, a number or null, or the empty
\* string when the answer has none.
C7_Code(v) == IF "errorCode" \in DOMAIN v.f THEN v.f["errorCode"] ELSE JStr(<<>>)

\* The phrase of a code in the table of the client, the generic phrase when
\* the table has no such code.
C7_Phrase(op, code) ==
    LET table == IF op = "translate" THEN translator_error_messages ELSE ocr_error_messages
        hits == {e \in table : code.k = "str" /\ e[1] = code.s}
    IN  IF hits = {} THEN <<"<unknown error>">> ELSE (CHOOSE e \in hits : TRUE)[2]

\* C7: for every error code other than "0", known to the table or not, and
\* for an answer without a code, translate and recognize return
\* success=false, an empty text and "error code <code>: <phrase>"; a code
\* the table lacks gets the generic phrase.
C7_ErrorCodeMapped ==
    (cl.pc = "done" /\ cl.outcome.at = "ok" /\ cl.outcome.value.k = "obj"
         /\ C7_Code(cl.outcome.value).k \in {"str", "num", "null"}
         /\ C7_Code(cl.outcome.value) # JStr(<<"0">>)) =>
        /\ cl.result.returned
        /\ ~cl.result.value.success
        /\ cl.op = "translate" => cl.result.value.translation = <<>>
        /\ cl.op = "recognize" => cl.result.value.text = <<>>
        /\ cl.result.value.error =
               <<"<error code >">> \o py_str(C7_Code(cl.outcome.value)) \o <<":", " ">>
                   \o C7_Phrase(cl.op, C7_Code(cl.outcome.value))

\* translate got the code "9999", which its table lacks.
C7_Witness ==
    /\ cl.pc = "done"
    /\ cl.op = "translate"
    /\ cl.outcome.at = "ok"
    /\ cl.outcome.value.k = "obj"
    /\ C7_Code(cl.outcome.value) = JStr(<<"9", "9", "9", "9">>)
    /\ cl.result.returned
    /\ cl.result.value.error =
           <<"<error code >", "9", "9", "9", "9", ":", " ", "<unknown error>">>

\* C8: when the body of the answer is not JSON, translate and recognize
\* return success=false with the malformed-data message, whichever class of
\* exception the decoding raises.
C8_MalformedBodyMessage ==
    (cl.pc = "done" /\ cl.outcome.at = "json") =>
        /\ cl.result.returned
        /\ ~cl.result.value.success
        /\ cl.result.value.error = MSG_MALFORMED

\* C9: a timeout of the POST gives success=false with the timeout message;
\* every other transport failure gives the generic message with its cause,
\* which is never the timeout message.
C9_TimeoutHasItsOwnMessage ==
    (cl.pc = "done" /\ cl.outcome.at = "post") =>
        /\ cl.result.returned
        /\ ~cl.result.value.success
        /\ IF cl.outcome.exc.cls \in {"ConnectTimeout", "ReadTimeout"}
           THEN cl.result.value.error = MSG_TIMEOUT
           ELSE /\ cl.result.value.error = MSG_REQUEST_FAILED \o cl.outcome.exc.msg
                /\ cl.result.value.error # MSG_TIMEOUT

\* A connect timeout, which is a ConnectionError as well, was reported as a
\* timeout.
C9_Witness ==
    /\ cl.pc = "done"
    /\ cl.op = "translate"
    /\ cl.outcome.at = "post"
    /\ cl.outcome.exc.cls = "ConnectTimeout"
    /\ cl.result.returned
    /\ cl.result.value.error = MSG_TIMEOUT

\* The items of a list; nothing else that recognize gets through has any.
C10_Items(v) == IF v.k = "list" THEN v.items ELSE <<>>

\* A line counts when it has a text that is a non-empty string.
C10_HasText(line) ==
    /\ "text" \in DOMAIN line.f
    /\ line.f["text"].k = "str"
    /\ line.f["text"].s # <<>>

\* The texts of a region's lines that count, in line order.
C10_RegionTexts(region) ==
    LET lines == IF "lines" \in DOMAIN region.f THEN C10_Items(region.f["lines"]) ELSE <<>>
        kept == SelectSeq(lines, C10_HasText)
    IN  [i \in 1..Len(kept) |-> kept[i].f["text"]]

\* The texts of all regions, region by region.
RECURSIVE C10_AllTexts(_)
C10_AllTexts(regions) ==
    IF regions = <<>> THEN <<>>
    ELSE C10_AllTexts(SubSeq(regions, 1, Len(regions) - 1))
             \o C10_RegionTexts(regions[Len(regions)])

\* The regions of an answer, as recognize reads them.
C10_Regions(v) ==
    IF "Result" \in DOMAIN v.f /\ "regions" \in DOMAIN v.f["Result"].f
    THEN v.f["Result"].f["regions"]
    ELSE JList(<<>>)

\* C10: for every successful OCR answer the flattened text is the texts of
\* the lines that have a non-empty text, joined by newline, in region order
\* and line order within a region; the other lines add nothing, and the
\* region list is returned as it came.
C10_FlattenedTextInOrder ==
    (cl.pc = "done" /\ cl.op = "recognize" /\ cl.result.returned
         /\ cl.result.value.success) =>
        /\ cl.result.value.text =
               C6_Joined(C10_AllTexts(C10_Items(C10_Regions(cl.outcome.value))))
        /\ cl.result.value.regions = C10_Regions(cl.outcome.value)

\* Two regions with the lines A, B and C came back.
C10_Witness ==
    /\ cl.pc = "done"
    /\ cl.op = "recognize"
    /\ cl.result.returned
    /\ cl.result.value.success
    /\ Len(C10_Items(cl.result.value.regions)) = 2
    /\ cl.result.value.text = <<"A", "\n", "B", "\n", "C">>

\* C11: every code that the translation mapper maps to a phrase of its own is
\* mapped by the OCR mapper to that same phrase: when recognize is answered
\* with such a code, its error carries the translation table's phrase and not
\* the generic one.
C11_OcrTableCoversTranslationTable ==
    (cl.pc = "done" /\ cl.op = "recognize" /\ cl.outcome.at = "ok"
         /\ cl.outcome.value.k = "obj"
         /\ C7_Code(cl.outcome.value).k = "str"
         /\ translator_get_error_message(C7_Code(cl.outcome.value)) # MSG_UNKNOWN) =>
        /\ cl.result.returned
        /\ cl.result.value.error =
               MSG_ERROR_CODE \o C7_Code(cl.outcome.value).s \o <<":", " ">>
                   \o translator_get_error_message(C7_Code(cl.outcome.value))

\* The value of a base64 character, and the bytes a base64 text stands for.
C13_B64Value(c) == IF c = "=" THEN 0 ELSE (CHOOSE i \in 0..63 : B64Chars[i + 1] = c)

RECURSIVE C13_B64Decode(_)
C13_B64Decode(s) ==
    IF Len(s) < 4 THEN <<>>
    ELSE LET n == C13_B64Value(s[1]) * 262144 + C13_B64Value(s[2]) * 4096
                      + C13_B64Value(s[3]) * 64 + C13_B64Value(s[4])
             bytes == <<n \div 65536, (n \div 256) % 256, n % 256>>
             pad == IF s[3] = "=" THEN 2 ELSE IF s[4] = "=" THEN 1 ELSE 0
         IN  SubSeq(bytes, 1, 3 - pad) \o C13_B64Decode(SubSeq(s, 5, Len(s)))

\* C13: the two signers are one function: the signature translate sends is
\* what the OCR signer gives for the text, the signature recognize sends is
\* what the translation signer gives for the payload, and that payload is
\* the image in base64, not its bytes.
C13_SignersAgree ==
    (cl.pc \in {"posting", "done"} /\ cl.params # NoParams) =>
        /\ cl.op = "translate" =>
               /\ cl.params.q = cl.text
               /\ cl.params.sign = YoudaoOCR_generate_sign(cl.app_key, cl.app_secret, cl.text,
                                                           cl.params.salt, cl.params.curtime)
        /\ cl.op = "recognize" =>
               /\ Len(cl.params.img) % 4 = 0
               /\ C13_B64Decode(cl.params.img) = cl.image
               /\ cl.params.sign =
                      YoudaoTranslator_generate_sign(cl.app_key, cl.app_secret, cl.params.img,
                                                     cl.params.salt, cl.params.curtime)

\* recognize signed an image of 16 bytes: 24 characters of base64, hashed
\* in the truncated form.
C13_Witness ==
    /\ cl.pc = "posting"
    /\ cl.op = "recognize"
    /\ Len(cl.image) = 16
    /\ Len(cl.params.img) = 24
    /\ cl.params.sign # sha256_hexdigest(encode_utf8(
           cl.app_key \o cl.params.img \o cl.params.salt \o cl.params.curtime
               \o cl.app_secret))

(***************************************************************************)
(* Claims about the window                                                 *)
(***************************************************************************)
\* C16: no application state is read or written by a worker thread or by
\* the tray thread: a worker computes its result from the values it was
\* given when it was started, so a recognition result handed to the event
\* loop is for the image that was current when _do_ocr started the worker,
\* and every tray menu entry only hands its effect to the event loop.
C16_NoStateTouchedOffTheEventLoop ==
    /\ ui.offloop = {}
    /\ \A i \in 1..Len(ui.queue) :
           ui.queue[i].f = "_on_ocr_complete" =>
               ui.queue[i].result.image = ui.queue[i].at_start

\* C18: no translation call is started with a source code equal to its
\* target code unless the source is "auto", whichever trigger started it
\* and whichever languages are selected.
C18_NoSameLanguageRequest ==
    \A t \in ui.workers : t.from_lang # t.to_lang \/ t.from_lang = "auto"

\* A trigger ran _translate on a text that is not blank with "中文简体"
\* selected on both sides, while an earlier call was in flight: the status
\* line tells the refusal and no second call was started.
C18_Witness ==
    /\ ui.from_lang_var = "<chinese-simplified>"
    /\ ui.to_lang_var = "<chinese-simplified>"
    /\ strip(ui.input) # <<>>
    /\ ui.status = ST_SAME_LANGUAGE
    /\ ui.calls = 1
    /\ InFlight(ui) = {1}

\* C19: at most one translation call is in flight at any time, and the
\* translate button is disabled exactly while one is.
C19_OneCallInFlightButtonDisabled ==
    /\ Cardinality(InFlight(ui)) <= 1
    /\ ui.translate_btn = "disabled" <=> InFlight(ui) # {}

\* The event loop took a response off its queue.
C20_Delivery == ui.queue # <<>> /\ ui'.queue = Tail(ui.queue)

\* What showing a response's result can mean: the translation of a success;
\* for a failure, nothing, the error, or the error as the status line has it.
C20_ResultTexts(result) ==
    IF result.success THEN {result.translation}
    ELSE {<<>>, result.error, ST_ERROR \o result.error}

\* C20 as stated: after every delivery of a response the displayed output
\* is that response's result.
C20_EveryDeliveryIsDisplayed ==
    [][C20_Delivery => ui'.output \in C20_ResultTexts(Head(ui.queue).result)]_vars

\* C20: after the delivery of a successful response the displayed output is
\* that response's translation, whatever the order of the calls and whatever
\* was displayed; the delivery of a failed response leaves the displayed
\* output as it was and puts the error in the status line.
C20_SuccessOverwritesFailureKeeps ==
    [][C20_Delivery =>
          LET result == Head(ui.queue).result
          IN  IF result.success THEN ui'.output = result.translation
              ELSE ui'.output = ui.output /\ ui'.status = ST_ERROR \o result.error]_vars

\* Two calls were started and both delivered; the last success delivered was
\* the first call's, and its translation is what the output shows.
C20_Witness ==
    /\ ui.calls = 2
    /\ ui.workers = {}
    /\ ui.queue = <<>>
    /\ ui.status = ST_DONE
    /\ ui.output = translate_result(1, TRUE).translation

\* A poll finds the selection marker while selection translation is disabled.
C24_DisabledPoll ==
    /\ selSignal # Absent
    /\ selSignal' = Absent
    /\ ~ui.selection_translate_enabled

====
